---- MODULE Spec2Model ----
(***************************************************************************)
(* Retrieval-augmented talent search of Talentfarm_Smart_ATS:              *)
(* src/rag_service.py (RAGTalentService: chunking, index maintenance,      *)
(* multi-collection retrieval, aggregation, verified rehydration) and      *)
(* src/services/talent_search_service.py (EnhancedTalentSearchService:     *)
(* requirement extraction and the search orchestrator).                    *)
(*                                                                         *)
(* A Python string is a sequence of tokens (one-character strings, or a    *)
(* literal piece of a format string); <<>> is the empty string and also    *)
(* stands for None (both are falsy and both become "" in _safe_string);    *)
(* the token " " is whitespace.  Scores are exact rationals, held as       *)
(* integers in the units named at the aggregator (floating-point rounding  *)
(* is not modelled).                                                       *)
(***************************************************************************)
EXTENDS Integers, Sequences, FiniteSets, Bags, TLC

VARIABLES
    resumes,      \* system of record: resume id -> Resume row or NoRow
    jobs,         \* system of record: job id -> Job row or NoRow
    store,        \* Qdrant: collection key -> bag of point payloads (point ids are fresh uuids)
    last,         \* the last index-maintenance call and what it returned
    query,        \* the hiring query of the request
    llm,          \* what the LLM call of extract_requirements does with it
    requirements, \* the value extract_requirements returned (NotYet before the call)
    all_results,  \* the validated, weighted hits handed to the aggregator
    ranked,       \* top_k and result of the last _aggregate_and_validate_results call
    found,        \* what the embedding call and the Qdrant searches of the request yield
    search_result, \* the bundle search_candidates returned (NoResult before the call)
    bulk,         \* the bulk reindex in progress: its position, counts and attempts
    conversation_history, \* talent_search_service.conversation_history: id -> messages
    http_response, \* the HTTP response of the last request to the search route
    calls,        \* the index_single_resume calls in flight: caller -> position
    run           \* the search_candidates run in progress: its stage and locals

idxVars == <<resumes, jobs, store, last>>
exVars == <<query, llm, requirements>>
aggVars == <<all_results, ranked>>
srchVars == <<found, search_result>>
procVars == <<bulk, conversation_history, http_response, calls, run>>
reqVars == <<exVars, aggVars, srchVars, procVars>>
vars == <<idxVars, reqVars>>

(***************************************************************************)
(* Bounds of the model                                                     *)
(***************************************************************************)
MaxJobId == 1
MaxStorePoints == 5
\* hits in one aggregator input, and the largest top_k asked for
MaxAggHits == 3
MaxTopK == 2
\* raw hits in the Qdrant answers of one search request
MaxFound == 2

\* the resume under maintenance (one record: its points are told apart from
\* others' by the resume_id filter alone)
ResumeIds == {1}
JobIds == 1..MaxJobId

(***************************************************************************)
(* Strings                                                                 *)
(***************************************************************************)
WS == " "

RECURSIVE lstrip(_)
lstrip(s) == IF s # <<>> /\ Head(s) = WS THEN lstrip(Tail(s)) ELSE s

RECURSIVE rstrip(_)
rstrip(s) == IF s # <<>> /\ s[Len(s)] = WS THEN rstrip(SubSeq(s, 1, Len(s) - 1)) ELSE s

\* str.strip()
strip(s) == rstrip(lstrip(s))

\* str.lower() on the alphabet of the model
lower_char(c) == IF c = "P" THEN "p" ELSE IF c = "J" THEN "j" ELSE c

lower(s) == [i \in DOMAIN s |-> lower_char(s[i])]

\* `a in b` for strings
IsSubstring(a, b) ==
    \E i \in 0..(Len(b) - Len(a)) : \A k \in 1..Len(a) : b[i + k] = a[k]

\* sep.join(parts)
RECURSIVE join(_, _)
join(sep, parts) ==
    IF parts = <<>> THEN <<>>
    ELSE IF Len(parts) = 1 THEN parts[1]
    ELSE parts[1] \o sep \o join(sep, Tail(parts))

RECURSIVE SeqToBag(_)
SeqToBag(s) == IF s = <<>> THEN EmptyBag ELSE SetToBag({Head(s)}) (+) SeqToBag(Tail(s))

(***************************************************************************)
(* System of record (src/models.py)                                        *)
(***************************************************************************)
NoRow == [kind |-> "none"]

\* an experience / education list entry: a dict, or something else (a plain string)
ExpDict(t, c, d, desc) ==
    [kind |-> "dict", title |-> t, company |-> c, duration |-> d, description |-> desc]
ExpOther == [kind |-> "str", title |-> <<>>, company |-> <<>>, duration |-> <<>>, description |-> <<>>]
EduDict(deg, inst, yr, gr) ==
    [kind |-> "dict", degree |-> deg, institution |-> inst, year |-> yr, grade |-> gr]
EduOther == [kind |-> "str", degree |-> <<>>, institution |-> <<>>, year |-> <<>>, grade |-> <<>>]

Resume(n, e, p, raw, sk, ex, ed) ==
    [kind |-> "resume", name |-> n, email |-> e, phone |-> p, raw_text |-> raw,
     skills |-> sk, experience |-> ex, education |-> ed]

\* a complete resume: four chunks, one per collection
RowAnn ==
    Resume(<<"Ann">>, <<"a@x">>, <<>>, <<"p", "y", WS, "d", "e", "v">>,
           << <<"P", "y">> >>,
           << ExpDict(<<"d", "e", "v">>, <<"Acme">>, <<>>, <<>>) >>,
           << EduDict(<<"BSc">>, <<>>, <<>>, <<>>) >>)

\* two experience entries and a non-dict one, a blank skill, no raw text
RowBob ==
    Resume(<<"Bob">>, <<>>, <<"555">>, <<>>,
           << <<"j", "s">>, <<WS>> >>,
           << ExpOther, ExpDict(<<>>, <<>>, <<"2y">>, <<"p", "y">>),
              ExpDict(<<"q", "a">>, <<>>, <<>>, <<>>) >>,
           <<>>)

\* whitespace-only raw text, entries with no or blank fields, no name or contact
RowBlank ==
    Resume(<<>>, <<>>, <<>>, <<WS>>,
           <<>>,
           << ExpDict(<<>>, <<>>, <<>>, <<>>) >>,
           << EduDict(<<WS>>, <<>>, <<>>, <<>>), EduOther >>)

\* a resume whose parsed name is the placeholder "Unknown"
RowUnknown ==
    Resume(<<"Unknown">>, <<"u@x">>, <<>>, <<>>, << <<"p", "y">> >>, <<>>, <<>>)

\* nothing to index
RowEmpty == Resume(<<>>, <<"e@x">>, <<>>, <<>>, <<>>, <<>>, <<>>)

\* a name and skills, no email or phone
RowNoContact == Resume(<<"Cy">>, <<>>, <<WS>>, <<>>, << <<"p", "y">> >>, <<>>, <<>>)

\* a name and an email, nothing to show
RowBare == Resume(<<"Di">>, <<"d@x">>, <<>>, <<>>, << <<WS>> >>, << ExpOther >>, <<>>)

\* a name, an email and one experience entry whose title is a space
RowPadded ==
    Resume(<<"Ed">>, <<"e@x">>, <<>>, <<>>, <<>>,
           << ExpDict(<<WS>>, <<>>, <<>>, <<>>) >>, <<>>)

\* the resume rows the system of record may hold
ResumeRows == {RowAnn, RowBob, RowBlank, RowEmpty}

Job(t, c, loc, et, cat, desc, req) ==
    [kind |-> "job", title |-> t, company |-> c, location |-> loc, employment_type |-> et,
     category |-> cat, description |-> desc, requirements |-> req]

\* the job rows the system of record may hold
JobRows == {
    Job(<<"Dev">>, <<"Acme">>, <<>>, <<>>, <<"it">>, <<"code">>, << <<"p", "y">>, <<"s", "q", "l">> >>),
    Job(<<"QA">>, <<"Acme">>, <<"Rome">>, <<>>, <<>>, <<"test">>, <<>>),
    Job(<<>>, <<>>, <<>>, <<>>, <<>>, <<>>, <<>>)
}

(***************************************************************************)
(* Collections (RAGTalentService.__init__)                                 *)
(***************************************************************************)
collections == {"resumes", "skills", "experience", "education", "jobs"}

\* collections_to_clean of delete_resume_from_index, in its order
collections_to_clean == <<"resumes", "skills", "experience", "education">>

ResumeCollections == {collections_to_clean[i] : i \in DOMAIN collections_to_clean}

(***************************************************************************)
(* Document chunker                                                        *)
(***************************************************************************)
orUnknown(n) == IF n # <<>> THEN n ELSE <<"Unknown">>

\* exp_text_parts of one experience entry
exp_text_parts(exp) ==
    (IF exp.title # <<>> THEN << <<"Position: ">> \o exp.title >> ELSE <<>>)
    \o (IF exp.company # <<>> THEN << <<"Company: ">> \o exp.company >> ELSE <<>>)
    \o (IF exp.duration # <<>> THEN << <<"Duration: ">> \o exp.duration >> ELSE <<>>)
    \o (IF exp.description # <<>> THEN << <<"Description: ">> \o exp.description >> ELSE <<>>)

\* edu_text_parts of one education entry
edu_text_parts(edu) ==
    (IF edu.degree # <<>> THEN << <<"Degree: ">> \o edu.degree >> ELSE <<>>)
    \o (IF edu.institution # <<>> THEN << <<"Institution: ">> \o edu.institution >> ELSE <<>>)
    \o (IF edu.year # <<>> THEN << <<"Year: ">> \o edu.year >> ELSE <<>>)
    \o (IF edu.grade # <<>> THEN << <<"Grade: ">> \o edu.grade >> ELSE <<>>)

Chunk(id, type, text, name) == [resume_id |-> id, type |-> type, text |-> text, name |-> name]

\* the experience chunks: one per dict entry that has a populated field
RECURSIVE experience_chunks(_, _, _)
experience_chunks(id, name, exps) ==
    IF exps = <<>> THEN <<>>
    ELSE (IF Head(exps).kind = "dict" /\ exp_text_parts(Head(exps)) # <<>>
          THEN << Chunk(id, "experience", join(<<" | ">>, exp_text_parts(Head(exps))), orUnknown(name)) >>
          ELSE <<>>)
         \o experience_chunks(id, name, Tail(exps))

RECURSIVE education_chunks(_, _, _)
education_chunks(id, name, edus) ==
    IF edus = <<>> THEN <<>>
    ELSE (IF Head(edus).kind = "dict" /\ edu_text_parts(Head(edus)) # <<>>
          THEN << Chunk(id, "education", join(<<" | ">>, edu_text_parts(Head(edus))), orUnknown(name)) >>
          ELSE <<>>)
         \o education_chunks(id, name, Tail(edus))

\* RAGTalentService.chunk_resume_text: the chunks of resume row r with id `id`
chunk_resume_text(id, r) ==
    (IF r.raw_text # <<>> THEN << Chunk(id, "full_resume", r.raw_text, r.name) >> ELSE <<>>)
    \o (IF r.skills # <<>>
        THEN << Chunk(id, "skills", <<"Skills and Technologies: ">> \o join(<<WS>>, r.skills),
                      orUnknown(r.name)) >>
        ELSE <<>>)
    \o experience_chunks(id, r.name, r.experience)
    \o education_chunks(id, r.name, r.education)

\* the collection a chunk type is routed to
CollectionOf(type) ==
    CASE type = "full_resume" -> "resumes"
      [] type = "skills" -> "skills"
      [] type = "experience" -> "experience"
      [] type = "education" -> "education"

JobChunk(id, type, text) == [job_id |-> id, chunk_type |-> type, text |-> text]

\* full_text_parts of chunk_job_text
full_text_parts(j) ==
    (IF j.title # <<>> THEN << <<"Job Title: ">> \o j.title >> ELSE <<>>)
    \o (IF j.company # <<>> THEN << <<"Company: ">> \o j.company >> ELSE <<>>)
    \o (IF j.location # <<>> THEN << <<"Location: ">> \o j.location >> ELSE <<>>)
    \o (IF j.employment_type # <<>> THEN << <<"Employment Type: ">> \o j.employment_type >> ELSE <<>>)
    \o (IF j.category # <<>> THEN << <<"Category: ">> \o j.category >> ELSE <<>>)
    \o (IF j.description # <<>> THEN << <<"Description: ">> \o j.description >> ELSE <<>>)

\* RAGTalentService.chunk_job_text
chunk_job_text(id, j) ==
    (IF full_text_parts(j) # <<>>
     THEN << JobChunk(id, "full_job", join(<<" | ">>, full_text_parts(j))) >>
     ELSE <<>>)
    \o (IF j.requirements # <<>>
        THEN << JobChunk(id, "requirements", <<"Job Requirements: ">> \o join(<<WS>>, j.requirements)) >>
        ELSE <<>>)

(***************************************************************************)
(* Vector store primitives (qdrant_client)                                 *)
(***************************************************************************)
\* the points of bag b whose payload field key equals id
Matching(b, key, id) == {p \in DOMAIN b : p[key] = id}

\* qdrant_client.delete(collection, Filter(must=[key == id]))
qdrant_delete(b, key, id) == [p \in (DOMAIN b) \ Matching(b, key, id) |-> b[p]]

\* number of points of collection c whose payload field key equals id (scroll by filter)
CountIn(st, c, key, id) ==
    LET m == Matching(st[c], key, id)
    IN BagCardinality([p \in m |-> st[c][p]])

StoreSize(st) == BagCardinality(st["resumes"]) + BagCardinality(st["skills"])
                 + BagCardinality(st["experience"]) + BagCardinality(st["education"])
                 + BagCardinality(st["jobs"])

ResumeCounts(st, id) == [c \in ResumeCollections |-> CountIn(st, c, "resume_id", id)]

(***************************************************************************)
(* Index maintainer                                                        *)
(***************************************************************************)
\* External faults of one index call: `del` is the number of collections the
\* delete cleaned before the client raised (Len(collections_to_clean): none
\* raised), `chunk` the positions of the chunks whose embedding failed,
\* `ups` the collections whose upsert raised.
NoFault == [del |-> Len(collections_to_clean), chunk |-> {}, ups |-> {}]

DeleteFaults == {[NoFault EXCEPT !.del = k] : k \in 0..Len(collections_to_clean)}

Faults(n) ==
    DeleteFaults
    \cup {[NoFault EXCEPT !.chunk = {i}] : i \in 1..n}
    \cup {[NoFault EXCEPT !.chunk = 1..n]}
    \cup {[NoFault EXCEPT !.ups = {c}] : c \in ResumeCollections}
    \cup {[NoFault EXCEPT !.ups = ResumeCollections]}

\* the store after delete_resume_from_index when the client raises after k
\* collections (lines 642-656)
delete_resume_points_skip(st, id, k) ==
    [c \in collections |->
        IF \E i \in 1..k : collections_to_clean[i] = c /\ c # "education"
        THEN qdrant_delete(st[c], "resume_id", id) ELSE st[c]]

delete_resume_points(st, id, k) ==
    [c \in collections |->
        IF \E i \in 1..k : collections_to_clean[i] = c
        THEN qdrant_delete(st[c], "resume_id", id) ELSE st[c]]

\* a delete_resume_from_index that reports success whatever happened
delete_resume_from_index_lenient(st, id, k) ==
    [store |-> delete_resume_points(st, id, k), ok |-> TRUE]

\* RAGTalentService.delete_resume_from_index: the store it leaves and what it returns
delete_resume_from_index(st, id, k) ==
    [store |-> delete_resume_points(st, id, k), ok |-> (k = Len(collections_to_clean))]

\* the store after delete_job_from_index; raised: the client raised (lines 669-679)
delete_job_points(st, id, raised) ==
    IF raised THEN st ELSE [st EXCEPT !["jobs"] = qdrant_delete(st["jobs"], "job_id", id)]

\* RAGTalentService.delete_job_from_index
delete_job_from_index(st, id, raised) ==
    [store |-> delete_job_points(st, id, raised), ok |-> ~raised]

\* the chunks of index_single_resume that became points: non-blank text
\* (line 1031) and an embedding (lines 1036-1041, 1069-1071)
RECURSIVE prepared_points(_, _, _)
prepared_points(chunks, f, i) ==
    IF i > Len(chunks) THEN <<>>
    ELSE (IF chunks[i].text # <<>> /\ strip(chunks[i].text) # <<>> /\ i \notin f.chunk
          THEN <<chunks[i]>> ELSE <<>>)
         \o prepared_points(chunks, f, i + 1)

RECURSIVE points_of_collection(_, _)
points_of_collection(points, c) ==
    IF points = <<>> THEN <<>>
    ELSE (IF CollectionOf(Head(points).type) = c THEN <<Head(points)>> ELSE <<>>)
         \o points_of_collection(Tail(points), c)

\* index_single_resume from the upserts on (lines 1071-1095): st1 is the store
\* the delete left, points the chunks that became points
upsert_points(st1, chunks, points, f) ==
    LET points_added == Len(points)
        upserted == {c \in ResumeCollections :
                        points_of_collection(points, c) # <<>> /\ c \notin f.ups}
        collections_updated == Cardinality(upserted)
        st2 == [c \in collections |->
                   IF c \in upserted THEN st1[c] (+) SeqToBag(points_of_collection(points, c))
                   ELSE st1[c]]
    IN  IF chunks = <<>>
        THEN [store |-> st1, success |-> FALSE, error |-> "No valid content to index",
              points_added |-> 0, collections_updated |-> 0]
        ELSE IF points_added > 0 /\ collections_updated > 0
        THEN [store |-> st2, success |-> TRUE, error |-> "",
              points_added |-> points_added, collections_updated |-> collections_updated]
        ELSE [store |-> st2, success |-> FALSE, error |-> "No points were successfully indexed",
              points_added |-> points_added, collections_updated |-> collections_updated]

\* RAGTalentService.index_single_resume on row r under faults f: the delete,
\* the chunking and the embedding, each done once, then the upserts
index_single_resume(st, id, r, f) ==
    CHOOSE result \in {upsert_points(st1, chunks, points, f) :
                          st1 \in {delete_resume_from_index(st, id, f.del).store},
                          chunks \in {chunk_resume_text(id, r)},
                          points \in {prepared_points(chunk_resume_text(id, r), f, 1)}} : TRUE

\* the collections index_resume upserts before the first upsert that raises
RECURSIVE upserted_before_raise(_, _, _)
upserted_before_raise(chunks, ups, i) ==
    IF i > Len(collections_to_clean) THEN {}
    ELSE IF points_of_collection(chunks, collections_to_clean[i]) = <<>>
    THEN upserted_before_raise(chunks, ups, i + 1)
    ELSE IF collections_to_clean[i] \in ups THEN {}
    ELSE {collections_to_clean[i]} \cup upserted_before_raise(chunks, ups, i + 1)

\* RAGTalentService.index_resume on row r under faults f: nothing is deleted
\* first, and the first exception ends the call with False
index_resume(st, id, r, f) ==
    LET chunks == chunk_resume_text(id, r)
        embedded == f.chunk \cap DOMAIN chunks = {}
        upserted == upserted_before_raise(chunks, f.ups, 1)
        raised == \E c \in f.ups : points_of_collection(chunks, c) # <<>>
    IN  IF chunks = <<>> THEN [store |-> st, ok |-> FALSE]
        ELSE IF ~embedded THEN [store |-> st, ok |-> FALSE]
        ELSE [store |-> [c \in collections |->
                            IF c \in upserted
                            THEN st[c] (+) SeqToBag(points_of_collection(chunks, c))
                            ELSE st[c]],
              ok |-> ~raised]

\* the job chunks whose embedding and upsert succeeded (lines 539-567)
RECURSIVE job_points(_, _, _)
job_points(chunks, failed, i) ==
    IF i > Len(chunks) THEN <<>>
    ELSE (IF i \notin failed THEN <<chunks[i]>> ELSE <<>>) \o job_points(chunks, failed, i + 1)

\* RAGTalentService.index_single_job on row j; failed: positions of the chunks
\* whose embedding or upsert raised
index_single_job(st, id, j, failed) ==
    LET chunks == chunk_job_text(id, j)
        points == job_points(chunks, failed, 1)
    IN  IF chunks = <<>>
        THEN [store |-> st, success |-> FALSE, points_added |-> 0]
        ELSE [store |-> [st EXCEPT !["jobs"] = @ (+) SeqToBag(points)],
              success |-> TRUE, points_added |-> Len(points)]

\* RAGTalentService.auto_sync_job
auto_sync_job(st, id, j, operation, failed) ==
    LET deleted == delete_job_from_index(st, id, failed # {})
        result == index_single_job(st, id, j, failed)
    IN  IF operation = "delete"
        THEN [store |-> deleted.store, ok |-> deleted.ok]
        ELSE [store |-> result.store, ok |-> result.success]

\* RAGTalentService.auto_sync_resume
auto_sync_resume(st, id, r, operation, f) ==
    LET deleted == delete_resume_from_index(st, id, f.del)
        result == index_single_resume(st, id, r, f)
    IN  IF operation = "delete"
        THEN [store |-> deleted.store, ok |-> deleted.ok]
        ELSE [store |-> result.store, ok |-> result.success]

(***************************************************************************)
(* Index maintenance as a state machine: the system of record changes,    *)
(* and the sync calls of the routes and listeners run against the store.   *)
(***************************************************************************)
\* per collection, the number of points of record `id` of kind `kind`
Counts(st, kind, id) ==
    [c \in collections |->
        IF kind = "resume" /\ c \in ResumeCollections THEN CountIn(st, c, "resume_id", id)
        ELSE IF kind = "job" /\ c = "jobs" THEN CountIn(st, c, "job_id", id)
        ELSE 0]

Total(counts) == counts["resumes"] + counts["skills"] + counts["experience"]
                 + counts["education"] + counts["jobs"]

\* what is remembered of the last maintenance call: op is the function that
\* ran, ok what it returned, clean whether no external call raised, rep
\* whether it repeated a clean index_single_resume of the same record
\* directly before it, had whether the record had points before the call
Call(op, id, ok, clean, rep, had) ==
    [op |-> op, id |-> id, ok |-> ok, clean |-> clean, rep |-> rep, had |-> had]

NoCall == Call("none", 0, FALSE, TRUE, FALSE, FALSE)

EmptyStore == [c \in collections |-> EmptyBag]

SyncOps == {"create", "update", "delete"}

\* no search request is being served
NotYet == [t |-> "none", v |-> <<>>]

NotRanked == [top_k |-> 0, results |-> <<>>]

ExtractorIdle ==
    /\ query = <<>>
    /\ llm = [kind |-> "none", value |-> NotYet]
    /\ requirements = NotYet

AggregatorIdle ==
    /\ all_results = <<>>
    /\ ranked = NotRanked

IndexIdle ==
    /\ resumes = [id \in ResumeIds |-> NoRow]
    /\ jobs = [id \in JobIds |-> NoRow]
    /\ store = EmptyStore
    /\ last = NoCall

NoFound == [embedding_ok |-> TRUE, raised |-> {}, hits |-> <<>>]

NoResult ==
    [done |-> FALSE, success |-> FALSE, candidates |-> <<>>, response |-> <<>>,
     requirements |-> NotYet, total_found |-> 0, error |-> <<>>]

SearchIdle ==
    /\ found = NoFound
    /\ search_result = NoResult

\* no bulk reindex has been asked for
NoBulk == [pc |-> "idle", route |-> "none", read |-> FALSE, todo |-> <<>>,
           attempted |-> <<>>, results |-> <<>>, status |-> 0]

\* the conversation ids of the requests ('default' when the body names none)
ConversationIds == {"default", "c2"}

NoResponse == [status |-> 0, success |-> FALSE, error |-> <<>>, conversation_id |-> ""]

\* the threads that may call index_single_resume at the same time
IndexCallers == {1, 2}

NotCalled == [pc |-> "idle", k |-> 0, points |-> <<>>]

\* search_candidates is not running stage by stage
NoRun == [stage |-> "Idle", reqs |-> NotYet, candidates |-> <<>>]

ProcIdle ==
    /\ run = NoRun
    /\ calls = [t \in IndexCallers |-> NotCalled]
    /\ bulk = NoBulk
    /\ conversation_history = [c \in ConversationIds |-> <<>>]
    /\ http_response = NoResponse

RequestIdle == ExtractorIdle /\ AggregatorIdle /\ SearchIdle /\ ProcIdle

IndexInit ==
    /\ resumes = [id \in ResumeIds |-> NoRow]
    /\ jobs = [id \in JobIds |-> NoRow]
    /\ store = EmptyStore
    /\ last = NoCall
    /\ RequestIdle

\* resumes.py upload_resume / update_resume: the row is written
DbPutResume(id, row) ==
    /\ resumes' = [resumes EXCEPT ![id] = row]
    /\ last' = NoCall
    /\ UNCHANGED <<jobs, store>>
    /\ UNCHANGED reqVars

\* resumes.py delete_resume: the row is deleted
DbDeleteResume(id) ==
    /\ resumes[id] # NoRow
    /\ resumes' = [resumes EXCEPT ![id] = NoRow]
    /\ last' = NoCall
    /\ UNCHANGED <<jobs, store>>
    /\ UNCHANGED reqVars

\* auto_sync_resume(resume, operation) of the routes and listeners, and
\* index_single_resume(resume) of the sync route
AutoSyncResume(id, operation, f) ==
    /\ resumes[id] # NoRow
    /\ LET r == auto_sync_resume(store, id, resumes[id], operation, f)
           op == IF operation = "delete" THEN "delete_resume_from_index"
                                         ELSE "index_single_resume"
           rep == /\ op = "index_single_resume"
                  /\ last.op = "index_single_resume" /\ last.id = id /\ last.clean
       IN  /\ StoreSize(r.store) <= MaxStorePoints
           /\ store' = r.store
           /\ last' = Call(op, id, r.ok, f = NoFault, rep,
                           Total(Counts(store, "resume", id)) > 0)
    /\ UNCHANGED <<resumes, jobs>>
    /\ UNCHANGED reqVars

\* delete_resume_from_index(target.id) of the after_delete listener
DeleteResumeFromIndex(id, k) ==
    /\ LET r == delete_resume_from_index(store, id, k)
       IN  /\ store' = r.store
           /\ last' = Call("delete_resume_from_index", id, r.ok,
                           k = Len(collections_to_clean), FALSE,
                           Total(Counts(store, "resume", id)) > 0)
    /\ UNCHANGED <<resumes, jobs>>
    /\ UNCHANGED reqVars

IndexNext ==
    \/ \E id \in ResumeIds, row \in ResumeRows : DbPutResume(id, row)
    \/ \E id \in ResumeIds : DbDeleteResume(id)
    \/ \E id \in ResumeIds, operation \in SyncOps :
          /\ resumes[id] # NoRow
          /\ \E f \in (IF operation = "delete" THEN DeleteFaults
                        ELSE Faults(Len(chunk_resume_text(id, resumes[id])))) :
                AutoSyncResume(id, operation, f)
    \/ \E id \in ResumeIds, k \in 0..Len(collections_to_clean) : DeleteResumeFromIndex(id, k)

\* resume index maintenance
SpecIndex == IndexInit /\ [][IndexNext]_vars

\* jobs.py create_job / update_job
DbPutJob(id, row) ==
    /\ jobs' = [jobs EXCEPT ![id] = row]
    /\ last' = NoCall
    /\ UNCHANGED <<resumes, store>>
    /\ UNCHANGED reqVars

\* jobs.py delete_job
DbDeleteJob(id) ==
    /\ jobs[id] # NoRow
    /\ jobs' = [jobs EXCEPT ![id] = NoRow]
    /\ last' = NoCall
    /\ UNCHANGED <<resumes, store>>
    /\ UNCHANGED reqVars

\* auto_sync_job(job, operation) of the routes and listeners
AutoSyncJob(id, operation, failed) ==
    /\ jobs[id] # NoRow
    /\ LET r == auto_sync_job(store, id, jobs[id], operation, failed)
           op == IF operation = "delete" THEN "delete_job_from_index" ELSE "index_single_job"
       IN  /\ StoreSize(r.store) <= MaxStorePoints
           /\ store' = r.store
           /\ last' = Call(op, id, r.ok, failed = {}, FALSE, Total(Counts(store, "job", id)) > 0)
    /\ UNCHANGED <<resumes, jobs>>
    /\ UNCHANGED reqVars

\* delete_job_from_index(target.id) of the after_delete listener
DeleteJobFromIndex(id, raised) ==
    /\ LET r == delete_job_from_index(store, id, raised)
       IN  /\ store' = r.store
           /\ last' = Call("delete_job_from_index", id, r.ok, ~raised, FALSE,
                           Total(Counts(store, "job", id)) > 0)
    /\ UNCHANGED <<resumes, jobs>>
    /\ UNCHANGED reqVars

JobNext ==
    \/ \E id \in JobIds, row \in JobRows : DbPutJob(id, row)
    \/ \E id \in JobIds : DbDeleteJob(id)
    \/ \E id \in JobIds, operation \in SyncOps :
          /\ jobs[id] # NoRow
          /\ \E failed \in SUBSET (1..Len(chunk_job_text(id, jobs[id]))) : AutoSyncJob(id, operation, failed)
    \/ \E id \in JobIds, raised \in BOOLEAN : DeleteJobFromIndex(id, raised)

\* job index maintenance
SpecJobs == IndexInit /\ [][JobNext]_vars

(***************************************************************************)
(* Claims on index maintenance                                             *)
(***************************************************************************)
KindOf(op) ==
    IF op \in {"index_single_resume", "delete_resume_from_index"} THEN "resume"
    ELSE IF op \in {"index_single_job", "delete_job_from_index"} THEN "job"
    ELSE "none"

\* the bag of points of job `id` in the jobs collection
JobBag(st, id) == [p \in Matching(st["jobs"], "job_id", id) |-> st["jobs"][p]]

\* C1: a clean index_single_resume call that directly follows a clean
\* index_single_resume call of the same, unchanged resume leaves in each of
\* the four resume collections as many points of that resume as there were
\* after the first call.
C1_IdempotentResumeIndex ==
    [][\A id \in ResumeIds :
          (last'.op = "index_single_resume" /\ last'.id = id /\ last'.clean /\ last'.rep)
          => ResumeCounts(store', id) = ResumeCounts(store, id)]_vars

\* C1 witness: a repeated clean index call succeeded on a resume that had points.
C1_Witness ==
    /\ last.op = "index_single_resume" /\ last.rep /\ last.clean /\ last.ok /\ last.had
    /\ Total(Counts(store, "resume", last.id)) > 1

\* C2 as claimed: after auto_sync_job(job, 'create'|'update') the jobs
\* collection holds, for that job, only points of the chunks of the job as
\* indexed by that call, each at most once.
C2_JobIndexReplaces ==
    last.op = "index_single_job"
    => JobBag(store, last.id) \sqsubseteq SeqToBag(chunk_job_text(last.id, jobs[last.id]))

\* C3 as claimed: after a delete call, whatever it returned, no point of the
\* record is left.
C3_DeleteLeavesNothing ==
    last.op \in {"delete_resume_from_index", "delete_job_from_index"}
    => Total(Counts(store, KindOf(last.op), last.id)) = 0

\* C3 amended: after a delete call that returned True no point of the record
\* is left in any collection.
C3_DeletionCompleteness ==
    (last.op \in {"delete_resume_from_index", "delete_job_from_index"} /\ last.ok)
    => Total(Counts(store, KindOf(last.op), last.id)) = 0

\* C3 witness: a successful delete of a resume that had points in the index.
C3_Witness ==
    last.op = "delete_resume_from_index" /\ last.ok /\ last.had

(***************************************************************************)
(* Requirement extractor (src/services/talent_search_service.py)           *)
(*                                                                         *)
(* A JSON value is [t, v]: t its type, v its content (a string's tokens,   *)
(* a list's items, <<n>> for a number in tenths).  A JSON object is a      *)
(* record with t = "dict" and one field per key; a key the object lacks    *)
(* holds JAbsent.                                                          *)
(***************************************************************************)
JStr(s) == [t |-> "str", v |-> s]
JNum(n) == [t |-> "num", v |-> <<n>>]
JList(items) == [t |-> "list", v |-> items]
JBool(b) == [t |-> "bool", v |-> <<b>>]
JNull == [t |-> "null", v |-> <<>>]
JAbsent == [t |-> "absent", v |-> <<>>]

\* the number 1 of `confidence > 1`, in tenths
ConfOne == 10

not_specified == JStr(<<"not_specified">>)

JDict(title, skills, tech, certs, conf, questions, fallback) ==
    [t |-> "dict", job_title |-> title, skills_required |-> skills, technologies |-> tech,
     certifications |-> certs, confidence |-> conf, follow_up_questions |-> questions,
     fallback_search |-> fallback]

\* the value extract_requirements returns from its except branch (lines 88-102)
extraction_fallback_silent ==
    JDict(not_specified, JList(<<>>), JList(<<>>), JList(<<>>), JNum(0), JList(<<>>), JAbsent)

extraction_fallback ==
    JDict(not_specified, JList(<<>>), JList(<<>>), JList(<<>>), JNum(0),
          JList(<< JStr(<<"Could you please rephrase your requirements more clearly?">>) >>),
          JAbsent)

\* [x for x in items if isinstance(x, str) and x.lower() in original_lower]
RECURSIVE validated_items(_, _)
validated_items(items, original_lower) ==
    IF items = <<>> THEN <<>>
    ELSE (IF Head(items).t = "str" /\ IsSubstring(lower(Head(items).v), original_lower)
          THEN <<Head(items)>> ELSE <<>>)
         \o validated_items(Tail(items), original_lower)

\* what `for x in value` iterates over; a string yields its characters
IterItems(value) ==
    IF value.t = "list" THEN value.v
    ELSE [i \in DOMAIN value.v |-> JStr(<<value.v[i]>>)]

Iterable(value) == value.t \in {"list", "str"}

\* lines 111-116 (key = "skills_required") and 118-123 ("technologies"):
\* [res, ok], ok = FALSE when the step raised
validate_list_key(res, key, original_lower) ==
    IF res[key].t = "absent" THEN [res |-> res, ok |-> TRUE]
    ELSE IF Iterable(res[key])
    THEN [res |-> [res EXCEPT ![key] = JList(validated_items(IterItems(res[key]), original_lower))],
          ok |-> TRUE]
    ELSE [res |-> res, ok |-> FALSE]

\* lines 126-129
validate_job_title(res, original_lower) ==
    IF res.job_title.t = "absent" \/ res.job_title = not_specified
    THEN [res |-> res, ok |-> TRUE]
    ELSE IF res.job_title.t # "str" THEN [res |-> res, ok |-> FALSE]
    ELSE IF ~IsSubstring(lower(res.job_title.v), original_lower)
    THEN [res |-> [res EXCEPT !.job_title = not_specified], ok |-> TRUE]
    ELSE [res |-> res, ok |-> TRUE]

\* lines 132-134
validate_confidence(res) ==
    IF res.confidence.t = "absent" THEN res
    ELSE IF res.confidence.t # "num" \/ res.confidence.v[1] < 0 \/ res.confidence.v[1] > ConfOne
    THEN [res EXCEPT !.confidence = JNum(0)]
    ELSE res

\* the 3 of follow_ups[:3]
MaxFollowUps == 3

\* lines 137-141
validate_follow_ups(res) ==
    IF res.follow_up_questions.t = "absent" THEN [res EXCEPT !.follow_up_questions = JList(<<>>)]
    ELSE IF res.follow_up_questions.t # "list" THEN [res EXCEPT !.follow_up_questions = JList(<<>>)]
    ELSE [res EXCEPT !.follow_up_questions =
             JList(SubSeq(@.v, 1, IF Len(@.v) < MaxFollowUps THEN Len(@.v) ELSE MaxFollowUps))]

\* EnhancedTalentSearchService._validate_extracted_requirements: the steps
\* run in order on the same object; when one raises, the except branch
\* returns the object as the steps before it left it
validate_extracted_requirements(result, original_query) ==
    LET original_lower == lower(original_query)
        s1 == validate_list_key(result, "skills_required", original_lower)
        s2 == validate_list_key(s1.res, "technologies", original_lower)
        s3 == validate_job_title(s2.res, original_lower)
    IN  IF result.t # "dict" THEN result
        ELSE IF ~s1.ok THEN s1.res
        ELSE IF ~s2.ok THEN s2.res
        ELSE IF ~s3.ok THEN s3.res
        ELSE validate_follow_ups(validate_confidence(s3.res))

\* what the LLM call does: it raises, its content is not JSON, or json.loads
\* yields `value`
LlmRaises == [kind |-> "raise", value |-> JNull]
LlmMalformed == [kind |-> "malformed", value |-> JNull]
LlmJson(value) == [kind |-> "json", value |-> value]

\* EnhancedTalentSearchService.extract_requirements
extract_requirements(q, reply) ==
    IF reply.kind # "json" THEN extraction_fallback
    ELSE validate_extracted_requirements(reply.value, q)

(***************************************************************************)
(* Requests to the extractor: queries and LLM replies                      *)
(***************************************************************************)
QPyDev == <<"P", "y", " ", "d", "e", "v">>
QJs == <<"j", "s">>
Queries == {QPyDev, QJs}

SPy == JStr(<<"p", "y">>)
SJs == JStr(<<"J", "s">>)
SGo == JStr(<<"g", "o">>)
SDev == JStr(<<"d", "e", "v">>)
Question(n) == JStr(<<"q", n>>)

SkillReplies ==
    {JAbsent, JNull, JNum(5), JList(<<>>), JList(<<SPy>>), JList(<<SJs, SGo>>),
     JList(<<JNum(1), SPy>>), JStr(<<"y", "g">>)}
TechReplies == {JAbsent, JNull, JList(<<>>), JList(<<SGo>>), JList(<<SJs>>)}
TitleReplies == {JAbsent, not_specified, SDev, SGo, JNum(7), JNull}
ConfidenceReplies ==
    {JAbsent, JNull, JStr(<<"h", "i">>), JNum(0 - 1), JNum(0), JNum(9), JNum(ConfOne), JNum(15)}
QuestionReplies ==
    {JAbsent, JNull, JList(<<>>), JList(<<Question("1")>>),
     JList(<<Question("1"), Question("2"), Question("3")>>),
     JList(<<Question("1"), Question("2"), Question("3"), Question("4")>>)}

ObjectReplies ==
    {JDict(title, skills, tech, JList(<<>>), conf, questions, JAbsent) :
        title \in TitleReplies, skills \in SkillReplies, tech \in TechReplies,
        conf \in ConfidenceReplies, questions \in QuestionReplies}

\* JSON texts whose top level is no object
OtherReplies == {JList(<<JNum(1)>>), JList(<<>>), JNull, JNum(3), JNum(0), SPy, JStr(<<>>)}

LlmReplies ==
    {LlmRaises, LlmMalformed} \cup {LlmJson(value) : value \in ObjectReplies \cup OtherReplies}

ExtractInit ==
    /\ IndexIdle
    /\ AggregatorIdle
    /\ SearchIdle
    /\ ProcIdle
    /\ query \in Queries
    /\ llm \in LlmReplies
    /\ requirements = NotYet

\* a call of extract_requirements(query)
ExtractRequirements ==
    /\ requirements = NotYet
    /\ requirements' = extract_requirements(query, llm)
    /\ UNCHANGED <<query, llm>>
    /\ UNCHANGED <<idxVars, aggVars, srchVars, procVars>>

ExtractNext == ExtractRequirements

SpecExtract == ExtractInit /\ [][ExtractNext]_vars

\* the elements a validated list may hold
Elements(value) == IF Iterable(value) THEN IterItems(value) ELSE <<>>

\* a string a reply may not hold unless the query mentions it
Mentioned(item, q) == item.t = "str" => IsSubstring(lower(item.v), lower(q))

\* C4: whatever the LLM replied, every string among skills_required and
\* technologies of the returned requirements is a case-insensitive substring
\* of the query, and so is a job_title other than "not_specified".
C4_AntiHallucination ==
    requirements.t = "dict" =>
        /\ \A key \in {"skills_required", "technologies"} :
              \A i \in DOMAIN Elements(requirements[key]) :
                  Mentioned(Elements(requirements[key])[i], query)
        /\ requirements.job_title = not_specified \/ Mentioned(requirements.job_title, query)

\* C5: whatever the LLM replied, the confidence of the returned requirements
\* is a number within [0, 1] and there are at most three follow-up questions.
C5_ConfidenceAndFollowUps ==
    requirements.t = "dict" =>
        /\ requirements.confidence.t # "absent" =>
              /\ requirements.confidence.t = "num"
              /\ requirements.confidence.v[1] \in 0..ConfOne
        /\ requirements.follow_up_questions.t = "list" =>
              Len(requirements.follow_up_questions.v) <= MaxFollowUps

\* C6: when the LLM call raises or its output is no JSON, extract_requirements
\* returns the fallback: confidence 0.0, no skills, technologies or
\* certifications, job_title "not_specified", exactly one follow-up question.
C6_ExtractionFailureFallback ==
    (requirements # NotYet /\ llm.kind \in {"raise", "malformed"}) =>
        /\ requirements.t = "dict"
        /\ requirements.confidence = JNum(0)
        /\ requirements.skills_required = JList(<<>>)
        /\ requirements.technologies = JList(<<>>)
        /\ requirements.certifications = JList(<<>>)
        /\ requirements.job_title = not_specified
        /\ requirements.follow_up_questions.t = "list"
        /\ Len(requirements.follow_up_questions.v) = 1

C6_Witness == requirements # NotYet /\ llm.kind = "malformed"

(***************************************************************************)
(* Score aggregator (src/rag_service.py)                                   *)
(*                                                                         *)
(* A raw similarity score is an integer in hundredths, a collection weight *)
(* in tenths, a weighted score in thousandths.  Averages divide by the     *)
(* match count, so aggregated scores are kept in units of                  *)
(* 1/(1000 * ScoreDen), ScoreDen a common multiple of every match count.   *)
(***************************************************************************)
RECURSIVE Factorial(_)
Factorial(n) == IF n <= 1 THEN 1 ELSE n * Factorial(n - 1)

ScoreDen == Factorial(MaxAggHits) * Factorial(MaxFound)

\* search_configs of enhanced_semantic_search, in its order
search_configs == <<"resumes", "skills", "experience", "education">>

weight(c) ==
    CASE c = "resumes" -> 10 [] c = "skills" -> 20 [] c = "experience" -> 18 [] c = "education" -> 9

threshold(c) ==
    CASE c = "resumes" -> 20 [] c = "skills" -> 25 [] c = "experience" -> 25 [] c = "education" -> 20

\* `final_score >= 0.3` and `min(final_score, 2.0)`, in thousandths
MinFinalScore == 300
ScoreCap == 2000

\* an entry of all_results (lines 769-778)
WeightedHit(payload, raw, c) ==
    [resume_id |-> payload.resume_id, name |-> payload.name, text |-> payload.text,
     type |-> payload.type, score |-> raw * weight(c), original_score |-> raw, collection |-> c]

\* the keys of resume_scores, in insertion order
RECURSIVE resume_ids_in_order(_, _)
resume_ids_in_order(hits, seen) ==
    IF hits = <<>> THEN <<>>
    ELSE IF Head(hits).resume_id \in seen THEN resume_ids_in_order(Tail(hits), seen)
    ELSE <<Head(hits).resume_id>> \o resume_ids_in_order(Tail(hits), seen \cup {Head(hits).resume_id})

RECURSIVE SumScores(_)
SumScores(hits) == IF hits = <<>> THEN 0 ELSE Head(hits).score + SumScores(Tail(hits))

RECURSIVE MaxScore(_)
MaxScore(hits) ==
    IF hits = <<>> THEN 0
    ELSE IF Head(hits).score > MaxScore(Tail(hits)) THEN Head(hits).score ELSE MaxScore(Tail(hits))

HitsOf(hits, id) == LET mine(h) == h.resume_id = id IN SelectSeq(hits, mine)

InCollection(hits, c) == LET there(h) == h.collection = c IN SelectSeq(hits, there)

\* resume_scores[id] after the grouping loop (lines 849-878)
resume_data(hits, id) ==
    LET mine == HitsOf(hits, id)
    IN  [resume_id |-> id,
         name |-> mine[1].name,
         total_score |-> SumScores(mine),
         match_count |-> Len(mine),
         skill_matches |-> Len(InCollection(mine, "skills")),
         experience_matches |-> Len(InCollection(mine, "experience")),
         best_match_score |-> MaxScore(mine),
         collection_diversity |-> {mine[i].collection : i \in DOMAIN mine}]

\* avg_score (line 885)
avg_score(d) == (d.total_score * ScoreDen) \div d.match_count

\* final_score before the cap, without the diversity bonus
uncapped_score_no_diversity(d) ==
    avg_score(d) + (d.skill_matches * 150 + d.experience_matches * 100) * ScoreDen

\* final_score before the cap (lines 885-890)
uncapped_score(d) ==
    avg_score(d)
    + (Cardinality(d.collection_diversity) * 100 + d.skill_matches * 150
       + d.experience_matches * 100) * ScoreDen

\* an entry of final_results that keeps the uncapped score
scored_candidate_uncapped(d) ==
    [resume_id |-> d.resume_id, name |-> d.name,
     final_score |-> uncapped_score(d),
     avg_score |-> avg_score(d), match_count |-> d.match_count,
     skill_matches |-> d.skill_matches, experience_matches |-> d.experience_matches,
     best_match_score |-> d.best_match_score,
     diversity_score |-> Cardinality(d.collection_diversity)]

\* an entry of final_results (lines 894-906; top_matches is read by no caller)
scored_candidate(d) ==
    [resume_id |-> d.resume_id, name |-> d.name,
     final_score |-> IF uncapped_score(d) < ScoreCap * ScoreDen
                     THEN uncapped_score(d) ELSE ScoreCap * ScoreDen,
     avg_score |-> avg_score(d), match_count |-> d.match_count,
     skill_matches |-> d.skill_matches, experience_matches |-> d.experience_matches,
     best_match_score |-> d.best_match_score,
     diversity_score |-> Cardinality(d.collection_diversity)]

\* lines 883-906: the candidates at or above the floor, in insertion order
RECURSIVE final_results(_, _)
final_results(hits, ids) ==
    IF ids = <<>> THEN <<>>
    ELSE (IF uncapped_score(resume_data(hits, Head(ids))) >= MinFinalScore * ScoreDen
          THEN <<scored_candidate(resume_data(hits, Head(ids)))>> ELSE <<>>)
         \o final_results(hits, Tail(ids))

\* list.sort(key=final_score, reverse=True): stable, equal keys keep their order
RECURSIVE insert_sorted(_, _)
insert_sorted(sorted, x) ==
    IF sorted = <<>> THEN <<x>>
    ELSE IF Head(sorted).final_score >= x.final_score
    THEN <<Head(sorted)>> \o insert_sorted(Tail(sorted), x)
    ELSE <<x>> \o sorted

RECURSIVE sort_by_final_score(_)
sort_by_final_score(s) ==
    IF s = <<>> THEN <<>>
    ELSE insert_sorted(sort_by_final_score(SubSeq(s, 1, Len(s) - 1)), s[Len(s)])

Prefix(s, n) == SubSeq(s, 1, IF Len(s) < n THEN Len(s) ELSE n)

\* the aggregator without the final sort
aggregate_unsorted(hits, top_k) ==
    Prefix(final_results(hits, resume_ids_in_order(hits, {})), top_k)

\* RAGTalentService._aggregate_and_validate_results
aggregate_and_validate_results(hits, top_k) ==
    Prefix(sort_by_final_score(final_results(hits, resume_ids_in_order(hits, {}))), top_k)

(***************************************************************************)
(* Direct calls of the aggregator                                          *)
(***************************************************************************)
SearchIds == {1, 2}

\* the payload of a stored point of resume `id` in collection c
PointOf(id, c) ==
    Chunk(id, IF c = "resumes" THEN "full_resume" ELSE c, <<"t">>,
          IF id = 1 THEN <<"Ann">> ELSE <<"Bob">>)

\* raw scores that pass _validate_search_result
ValidScores == {0, 20, 100}

ConfigIndex(c) == CHOOSE i \in DOMAIN search_configs : search_configs[i] = c

ValidHits ==
    {WeightedHit(PointOf(id, c), raw, c) : id \in SearchIds, c \in ResumeCollections, raw \in ValidScores}

\* all_results is filled collection by collection in the order of
\* search_configs, each collection's hits by descending similarity
InSearchOrder(hits) ==
    \A i \in 1..(Len(hits) - 1) :
        \/ ConfigIndex(hits[i].collection) < ConfigIndex(hits[i + 1].collection)
        \/ /\ hits[i].collection = hits[i + 1].collection
           /\ hits[i].original_score >= hits[i + 1].original_score

AggInputs ==
    UNION {{hits \in [1..n -> ValidHits] : InSearchOrder(hits)} : n \in 0..MaxAggHits}

AggInit ==
    /\ IndexIdle
    /\ ExtractorIdle
    /\ SearchIdle
    /\ ProcIdle
    /\ all_results \in AggInputs
    /\ ranked = NotRanked

\* a call of _aggregate_and_validate_results(all_results, top_k)
AggregateResults(top_k) ==
    /\ ranked' = [top_k |-> top_k, results |-> aggregate_and_validate_results(all_results, top_k)]
    /\ UNCHANGED all_results
    /\ UNCHANGED <<idxVars, exVars, srchVars, procVars>>

AggNext == \E top_k \in 1..MaxTopK : AggregateResults(top_k)

SpecAgg == AggInit /\ [][AggNext]_vars

\* the uncapped score of resume `id` as the scoring rule states it: the
\* average weighted score, 0.1 per distinct collection, 0.15 per skills hit
\* and 0.1 per experience hit (in units of 1/(1000 * ScoreDen))
StatedScore(hits, id) ==
    LET mine == HitsOf(hits, id)
        distinct == {mine[i].collection : i \in DOMAIN mine}
        skills == {i \in DOMAIN mine : mine[i].collection = "skills"}
        experience == {i \in DOMAIN mine : mine[i].collection = "experience"}
    IN  (SumScores(mine) * ScoreDen) \div Len(mine)
        + (100 * Cardinality(distinct) + 150 * Cardinality(skills)
           + 100 * Cardinality(experience)) * ScoreDen

HitIds(hits) == {hits[i].resume_id : i \in DOMAIN hits}

RankedIds == {ranked.results[i].resume_id : i \in DOMAIN ranked.results}

\* C9: every candidate the aggregator returns has 0 <= final_score <= 2.0,
\* and none of them has an uncapped score below 0.3.
C9_ScoreBoundAndFloor ==
    \A i \in DOMAIN ranked.results :
        /\ ranked.results[i].final_score >= 0
        /\ ranked.results[i].final_score <= ScoreCap * ScoreDen
        /\ StatedScore(all_results, ranked.results[i].resume_id) >= MinFinalScore * ScoreDen

\* a call that capped one candidate and dropped another below the floor
C9_Witness ==
    /\ ranked.top_k > Len(ranked.results)
    /\ \E id \in HitIds(all_results) \ RankedIds :
          StatedScore(all_results, id) < MinFinalScore * ScoreDen
    /\ \E i \in DOMAIN ranked.results :
          /\ ranked.results[i].final_score = ScoreCap * ScoreDen
          /\ StatedScore(all_results, ranked.results[i].resume_id) > ScoreCap * ScoreDen

(***************************************************************************)
(* Rehydration from the system of record (src/rag_service.py)              *)
(***************************************************************************)
\* RAGTalentService._safe_string
safe_string(value) == strip(value)

\* [self._safe_string(skill) for skill in resume.skills if skill and str(skill).strip()]
RECURSIVE verified_skills(_)
verified_skills(skills) ==
    IF skills = <<>> THEN <<>>
    ELSE (IF strip(Head(skills)) # <<>> THEN <<safe_string(Head(skills))>> ELSE <<>>)
         \o verified_skills(Tail(skills))

\* clean_exp of the dict entries that have a populated field (lines 944-952);
\* a key that is not copied reads as '' through .get(key, '')
RECURSIVE verified_experience(_)
verified_experience(exps) ==
    IF exps = <<>> THEN <<>>
    ELSE (IF Head(exps).kind = "dict"
             /\ (Head(exps).title # <<>> \/ Head(exps).company # <<>>
                 \/ Head(exps).duration # <<>> \/ Head(exps).description # <<>>)
          THEN << [title |-> safe_string(Head(exps).title),
                   company |-> safe_string(Head(exps).company),
                   duration |-> safe_string(Head(exps).duration),
                   description |-> safe_string(Head(exps).description)] >>
          ELSE <<>>)
         \o verified_experience(Tail(exps))

\* clean_edu likewise (lines 956-964)
RECURSIVE verified_education(_)
verified_education(edus) ==
    IF edus = <<>> THEN <<>>
    ELSE (IF Head(edus).kind = "dict"
             /\ (Head(edus).degree # <<>> \/ Head(edus).institution # <<>>
                 \/ Head(edus).year # <<>> \/ Head(edus).grade # <<>>)
          THEN << [degree |-> safe_string(Head(edus).degree),
                   institution |-> safe_string(Head(edus).institution),
                   year |-> safe_string(Head(edus).year),
                   grade |-> safe_string(Head(edus).grade)] >>
          ELSE <<>>)
         \o verified_education(Tail(edus))

\* RAGTalentService.get_verified_candidate_data for a row that exists
\* (filename, upload_date, raw_text_length and data_completeness are read by
\* nothing downstream of the search)
get_verified_candidate_data(id, row) ==
    [resume_id |-> id,
     name |-> safe_string(row.name),
     email |-> safe_string(row.email),
     phone |-> safe_string(row.phone),
     skills |-> verified_skills(row.skills),
     experience |-> verified_experience(row.experience),
     education |-> verified_education(row.education)]

\* a rehydration that makes up a candidate for an id that has no row
RECURSIVE bulk_get_verified_candidates_made_up(_, _)
bulk_get_verified_candidates_made_up(db, resume_ids) ==
    IF resume_ids = <<>> THEN <<>>
    ELSE <<get_verified_candidate_data(Head(resume_ids),
                                       IF db[Head(resume_ids)] # NoRow
                                       THEN db[Head(resume_ids)] ELSE RowAnn)>>
         \o bulk_get_verified_candidates_made_up(db, Tail(resume_ids))

\* RAGTalentService.bulk_get_verified_candidates: ids with no row are left out
RECURSIVE bulk_get_verified_candidates(_, _)
bulk_get_verified_candidates(db, resume_ids) ==
    IF resume_ids = <<>> THEN <<>>
    ELSE (IF db[Head(resume_ids)] # NoRow
          THEN <<get_verified_candidate_data(Head(resume_ids), db[Head(resume_ids)])>>
          ELSE <<>>)
         \o bulk_get_verified_candidates(db, Tail(resume_ids))

(***************************************************************************)
(* Quality gate and summary (src/services/talent_search_service.py)        *)
(***************************************************************************)
\* Python truth value of a JSON value
Truthy(value) ==
    CASE value.t \in {"absent", "null", "none"} -> FALSE
      [] value.t = "num" -> value.v[1] # 0
      [] value.t = "bool" -> value.v[1]
      [] value.t = "dict" -> TRUE
      [] OTHER -> value.v # <<>>

\* [skill.lower().strip() for skill in requirements['skills_required']] can be
\* built: the value is iterable and its items are strings
SkillsUsable(value) ==
    /\ Iterable(value)
    /\ \A i \in DOMAIN IterItems(value) : IterItems(value)[i].t = "str"

required_skills(value) ==
    [i \in DOMAIN IterItems(value) |-> strip(lower(IterItems(value)[i].v))]

\* a skill test that any listed skill passes
has_skill_match_any(candidate, required) == candidate.skills # <<>>

\* lines 280-283
has_skill_match(candidate, required) ==
    \E i \in DOMAIN candidate.skills : \E k \in DOMAIN required :
        IsSubstring(required[k], strip(lower(candidate.skills[i])))

\* lines 286-292
has_experience_match(candidate, required) ==
    \E i \in DOMAIN candidate.experience : \E k \in DOMAIN required :
        IsSubstring(required[k],
                    lower(candidate.experience[i].title \o <<WS>>
                          \o candidate.experience[i].description))

\* the gate without the contact test
validate_candidate_quality_nocontact(candidate, reqs) ==
    /\ candidate.name # <<>>
    /\ candidate.resume_id # 0
    /\ candidate.skills # <<>> \/ candidate.experience # <<>> \/ candidate.education # <<>>
    /\ Truthy(reqs.skills_required) =>
          /\ SkillsUsable(reqs.skills_required)
          /\ \/ has_skill_match(candidate, required_skills(reqs.skills_required))
             \/ has_experience_match(candidate, required_skills(reqs.skills_required))

\* EnhancedTalentSearchService._validate_candidate_quality; a raise inside it
\* (skills_required that cannot be iterated or lower-cased) returns False
validate_candidate_quality(candidate, reqs) ==
    /\ candidate.name # <<>>
    /\ candidate.resume_id # 0
    /\ candidate.email # <<>> \/ candidate.phone # <<>>
    /\ candidate.skills # <<>> \/ candidate.experience # <<>> \/ candidate.education # <<>>
    /\ Truthy(reqs.skills_required) =>
          /\ SkillsUsable(reqs.skills_required)
          /\ \/ has_skill_match(candidate, required_skills(reqs.skills_required))
             \/ has_experience_match(candidate, required_skills(reqs.skills_required))

\* EnhancedTalentSearchService._verify_response_data
verify_response_data(candidate) ==
    /\ candidate.name # <<>>
    /\ candidate.name \notin {<<"Unknown">>, <<"Not provided">>}
    /\ candidate.resume_id # 0
    /\ candidate.skills # <<>> \/ candidate.experience # <<>> \/ candidate.education # <<>>

\* str(n) for the counts a response mentions
NumStr(n) == <<"0", "1", "2", "3", "4", "5", "6", "7", "8", "9">>[n + 1]

\* str(value) inside an f-string
StrOf(value) ==
    CASE value.t = "str" -> value.v
      [] value.t = "num" -> <<"num">>
      [] value.t = "null" -> <<"None">>
      [] OTHER -> <<"repr">>

\* ', '.join(skills[:n]) raises unless every item is a string
Joinable(items) == \A i \in DOMAIN items : items[i].t = "str"

\* EnhancedTalentSearchService._build_requirement_context; a raise inside it
\* returns ""  (experience_years is never a number in the replies modelled)
build_requirement_context(reqs) ==
    LET title_part ==
            IF Truthy(reqs.job_title) /\ reqs.job_title # not_specified
            THEN << StrOf(reqs.job_title) \o <<" role">> >> ELSE <<>>
        skills == reqs.skills_required
        items == IterItems(skills)
        skills_part ==
            IF ~Truthy(skills) THEN <<>>
            ELSE IF Len(items) = 1 THEN << <<"with ">> \o StrOf(items[1]) \o <<" skills">> >>
            ELSE IF Len(items) <= 3
            THEN << <<"with ">> \o join(<<", ">>, [i \in DOMAIN items |-> items[i].v]) \o <<" skills">> >>
            ELSE << <<"with ">> \o join(<<", ">>, [i \in 1..3 |-> items[i].v])
                    \o <<" and ", NumStr(Len(items) - 3), " more skills">> >>
        raises ==
            /\ Truthy(skills)
            /\ \/ ~Iterable(skills)
               \/ Len(items) > 1 /\ ~Joinable(Prefix(items, 3))
    IN  IF raises THEN <<>> ELSE join(<<", ">>, title_part \o skills_part)

\* EnhancedTalentSearchService._generate_no_results_response
generate_no_results_response(reqs) ==
    IF build_requirement_context(reqs) # <<>>
    THEN <<"I couldn't find any candidates matching your specific requirements for ">>
         \o build_requirement_context(reqs)
         \o <<". You might want to try broadening your search criteria or consider similar skills and experience levels.">>
    ELSE <<"I couldn't find any candidates matching your search. Please try refining your requirements or using different keywords.">>

FallbackNote ==
    "Note: I had some difficulty understanding your specific requirements, so I've provided a broader search result."

VerificationNeeded ==
    "I found some potential matches, but the candidate data needs verification. Please check the candidate cards below for accurate information."

RECURSIVE verified_for_response(_)
verified_for_response(candidates) ==
    IF candidates = <<>> THEN <<>>
    ELSE (IF verify_response_data(Head(candidates)) THEN <<Head(candidates)>> ELSE <<>>)
         \o verified_for_response(Tail(candidates))

Plural(n) == IF n # 1 THEN "s" ELSE ""

\* the "top match" sentence (lines 381-398)
top_match_part(top) ==
    LET skill_count == IF Len(top.skills) < 3 THEN Len(top.skills) ELSE 3
        highlights ==
            (IF top.skills # <<>> THEN << <<NumStr(skill_count), " relevant skills">> >> ELSE <<>>)
            \o (IF top.experience # <<>>
                THEN << <<NumStr(Len(top.experience)), " work experience entries">> >> ELSE <<>>)
    IN  IF highlights = <<>> THEN <<>>
        ELSE << <<"The top match is ">> \o top.name \o <<" with ">>
                \o join(<<" and ">>, highlights) \o <<".">> >>

\* generate_verified_response with the fallback branch left out
generate_verified_response_plain(candidates, reqs) ==
    LET verified == verified_for_response(Prefix(candidates, 5))
        total_verified == Len(verified)
        req_context == build_requirement_context(reqs)
    IN  IF candidates = <<>> THEN generate_no_results_response(reqs)
        ELSE IF verified = <<>> THEN <<VerificationNeeded>>
        ELSE join(<<WS>>,
                << <<"I found ", NumStr(total_verified), " verified candidate",
                     Plural(total_verified), " matching your requirements.">> >>
                \o (IF req_context # <<>>
                    THEN << <<"Based on your search for: ">> \o req_context >> ELSE <<>>)
                \o top_match_part(verified[1])
                \o << <<"Please review the candidate cards below for complete details. Click on any candidate to view their full profile.">>,
                      <<"All data shown has been verified from actual resume uploads.">> >>)

\* EnhancedTalentSearchService.generate_verified_response
generate_verified_response(candidates, reqs) ==
    LET is_fallback == Truthy(reqs.fallback_search)
        verified == verified_for_response(Prefix(candidates, 5))
        total_verified == Len(verified)
        req_context == build_requirement_context(reqs)
    IN  IF candidates = <<>> THEN generate_no_results_response(reqs)
        ELSE IF verified = <<>> THEN <<VerificationNeeded>>
        ELSE join(<<WS>>,
                (IF is_fallback
                 THEN << <<"I found ", NumStr(total_verified), " candidate",
                           Plural(total_verified), " for your search.">>,
                         <<FallbackNote>> >>
                 ELSE << <<"I found ", NumStr(total_verified), " verified candidate",
                           Plural(total_verified), " matching your requirements.">> >>)
                \o (IF ~is_fallback /\ req_context # <<>>
                    THEN << <<"Based on your search for: ">> \o req_context >> ELSE <<>>)
                \o top_match_part(verified[1])
                \o << <<"Please review the candidate cards below for complete details. Click on any candidate to view their full profile.">>,
                      <<"All data shown has been verified from actual resume uploads.">> >>)

(***************************************************************************)
(* Retrieval and the search orchestrator                                   *)
(***************************************************************************)
\* top_k of the enhanced_semantic_search call in search_candidates
TopK == 15

\* 'limit' of search_configs
limit(c, top_k) == IF c = "education" THEN top_k ELSE top_k * 2

\* RAGTalentService._validate_search_result
validate_search_result(hit) ==
    /\ hit.payload.resume_id # 0
    /\ hit.payload.text # <<>>
    /\ hit.score >= 0 /\ hit.score <= 100
    /\ strip(hit.payload.text) # <<>>

RECURSIVE weighted_valid_hits(_)
weighted_valid_hits(hits) ==
    IF hits = <<>> THEN <<>>
    ELSE (IF validate_search_result(Head(hits))
          THEN <<WeightedHit(Head(hits).payload, Head(hits).score, Head(hits).collection)>>
          ELSE <<>>)
         \o weighted_valid_hits(Tail(hits))

\* the part of all_results one search contributes (lines 758-783); a search
\* that raises contributes nothing
collection_results(fnd, c, top_k) ==
    IF c \in fnd.raised THEN <<>>
    ELSE weighted_valid_hits(Prefix(InCollection(fnd.hits, c), limit(c, top_k)))

\* all_results of enhanced_semantic_search before aggregation
collect_results(fnd, top_k) ==
    collection_results(fnd, search_configs[1], top_k)
    \o collection_results(fnd, search_configs[2], top_k)
    \o collection_results(fnd, search_configs[3], top_k)
    \o collection_results(fnd, search_configs[4], top_k)

\* RAGTalentService.enhanced_semantic_search; a failing embedding call
\* returns []
enhanced_semantic_search(fnd, top_k) ==
    IF ~fnd.embedding_ok THEN <<>>
    ELSE aggregate_and_validate_results(collect_results(fnd, top_k), top_k)

\* the fallback requirements of search_candidates (lines 163-176)
search_fallback ==
    JDict(not_specified, JList(<<>>), JList(<<>>), JList(<<>>), JNum(3), JAbsent, JBool(TRUE))

\* requirements.get('confidence', 0) == 0.0
ZeroConfidence(reqs) ==
    \/ reqs.confidence.t = "absent"
    \/ reqs.confidence.t = "num" /\ reqs.confidence.v[1] = 0

\* next(c for c in verified_candidates if c['resume_id'] == id): the position
\* of the first match, 0 when there is none
FirstWithId(verified_candidates, id) ==
    IF \E i \in DOMAIN verified_candidates : verified_candidates[i].resume_id = id
    THEN CHOOSE i \in DOMAIN verified_candidates :
            /\ verified_candidates[i].resume_id = id
            /\ \A k \in 1..(i - 1) : verified_candidates[k].resume_id # id
    ELSE 0

\* candidates that show the name stored with the matching point
RECURSIVE final_candidates_payload_name(_, _, _)
final_candidates_payload_name(search_results, verified_candidates, reqs) ==
    IF search_results = <<>> THEN <<>>
    ELSE LET at == FirstWithId(verified_candidates, Head(search_results).resume_id)
         IN  (IF at # 0 /\ validate_candidate_quality(verified_candidates[at], reqs)
              THEN << [resume_id |-> verified_candidates[at].resume_id,
                       name |-> Head(search_results).name,
                       email |-> verified_candidates[at].email,
                       phone |-> verified_candidates[at].phone,
                       skills |-> verified_candidates[at].skills,
                       experience |-> verified_candidates[at].experience,
                       education |-> verified_candidates[at].education,
                       search_score |-> Head(search_results).final_score] >>
              ELSE <<>>)
             \o final_candidates_payload_name(Tail(search_results), verified_candidates, reqs)

\* Step 4 of search_candidates: the ranked hits that have a verified
\* candidate passing the quality gate, in ranking order, each with its
\* search_score (match_details and relevance_explanation are left out)
RECURSIVE final_candidates(_, _, _)
final_candidates(search_results, verified_candidates, reqs) ==
    IF search_results = <<>> THEN <<>>
    ELSE LET at == FirstWithId(verified_candidates, Head(search_results).resume_id)
         IN  (IF at # 0 /\ validate_candidate_quality(verified_candidates[at], reqs)
              THEN << [resume_id |-> verified_candidates[at].resume_id,
                       name |-> verified_candidates[at].name,
                       email |-> verified_candidates[at].email,
                       phone |-> verified_candidates[at].phone,
                       skills |-> verified_candidates[at].skills,
                       experience |-> verified_candidates[at].experience,
                       education |-> verified_candidates[at].education,
                       search_score |-> Head(search_results).final_score] >>
              ELSE <<>>)
             \o final_candidates(Tail(search_results), verified_candidates, reqs)

NoCandidatesFound ==
    "No candidates found matching your criteria. Please try with different keywords or broader requirements."

TypeName(value) ==
    CASE value.t = "list" -> "list" [] value.t = "str" -> "str" [] value.t = "num" -> "int"
      [] OTHER -> "NoneType"

Bundle(success, candidates, response, reqs, error) ==
    [done |-> TRUE, success |-> success, candidates |-> candidates, response |-> response,
     requirements |-> reqs, total_found |-> Len(candidates), error |-> error]

\* str(e) of the AttributeError that requirements.get raises on a value that
\* is not a dict
str_e(value) == <<"'", TypeName(value), "' object has no attribute 'get'">>

\* EnhancedTalentSearchService.search_candidates on database db, for LLM
\* reply `reply` and Qdrant answers fnd
search_candidates(db, q, reply, fnd) ==
    LET extracted == extract_requirements(q, reply)
        reqs == IF ~Truthy(extracted) \/ ZeroConfidence(extracted)
                THEN search_fallback ELSE extracted
        search_results == enhanced_semantic_search(fnd, TopK)
        candidate_ids == [i \in DOMAIN search_results |-> search_results[i].resume_id]
        verified_candidates == bulk_get_verified_candidates(db, candidate_ids)
        candidates == final_candidates(search_results, verified_candidates, reqs)
    IN  IF Truthy(extracted) /\ extracted.t # "dict"
        THEN Bundle(FALSE, <<>>, <<>>, NotYet, <<"Search failed: ">> \o str_e(extracted))
        ELSE IF search_results = <<>>
        THEN Bundle(TRUE, <<>>, <<NoCandidatesFound>>, reqs, <<>>)
        ELSE Bundle(TRUE, candidates, generate_verified_response(candidates, reqs), reqs, <<>>)

(***************************************************************************)
(* Search requests                                                         *)
(***************************************************************************)
\* the index as the last successful syncs left it: resume 1 indexed from
\* RowAnn, resume 2 from RowUnknown
IndexedStore ==
    index_single_resume(index_single_resume(EmptyStore, 1, RowAnn, NoFault).store,
                        2, RowUnknown, NoFault).store

\* the system of record at search time: a row may have been rewritten or
\* deleted since it was indexed (a failed sync is logged, not rolled back)
SearchDbs ==
    {[id \in SearchIds |-> IF id = 1 THEN r1 ELSE r2] :
        r1 \in {RowAnn, RowEmpty, RowBare, RowPadded, NoRow},
        r2 \in {RowUnknown, RowBob, RowNoContact, NoRow}}

\* similarity scores Qdrant may report for a collection: at or above its
\* score_threshold; 110 stands for a score above 1
RawScores(c) == {x \in {20, 100, 110} : x >= threshold(c)}

RawHits(st, scores) ==
    {[collection |-> c, payload |-> p, score |-> x] :
        c \in ResumeCollections, p \in UNION {BagToSet(st[k]) : k \in ResumeCollections},
        x \in scores}

\* a point is returned at most as often as it is stored, from its own
\* collection, and each collection's hits come by descending score
HitLists(st, scores) ==
    LET pool == {h \in RawHits(st, scores) : /\ BagIn(h.payload, st[h.collection])
                                             /\ h.score \in RawScores(h.collection)}
    IN UNION {{hits \in [1..n -> pool] :
              /\ \A i \in 1..(n - 1) :
                    \/ ConfigIndex(hits[i].collection) < ConfigIndex(hits[i + 1].collection)
                    \/ /\ hits[i].collection = hits[i + 1].collection
                       /\ hits[i].score >= hits[i + 1].score
              /\ \A i \in 1..n :
                    Cardinality({k \in 1..n : /\ hits[k].collection = hits[i].collection
                                              /\ hits[k].payload = hits[i].payload})
                        <= CopiesIn(hits[i].payload, st[hits[i].collection])}
           : n \in 0..MaxFound}

FoundHits(st) == HitLists(st, {20, 100, 110})

\* the Qdrant answers: the hits, or a failing embedding call, or a failing
\* search of the skills collection
FoundOptions(st) ==
    {[embedding_ok |-> TRUE, raised |-> {}, hits |-> hits] : hits \in FoundHits(st)}
    \cup {[embedding_ok |-> FALSE, raised |-> {}, hits |-> <<>>]}
    \cup {[embedding_ok |-> TRUE, raised |-> {"skills"}, hits |-> hits] :
             hits \in {h \in FoundHits(st) : InCollection(h, "skills") = <<>>}}

SQ(n) == Question(n)

\* LLM replies of a search request
SearchReplies ==
    {LlmRaises, LlmMalformed,
     LlmJson(JDict(SDev, JList(<<SPy>>), JList(<<>>), JList(<<>>), JNum(9), JList(<<SQ("1")>>), JAbsent)),
     LlmJson(JDict(not_specified, JList(<<SDev, SJs>>), JList(<<SGo>>), JList(<<>>), JNum(5), JList(<<>>), JAbsent)),
     LlmJson(JDict(SDev, JList(<<>>), JList(<<>>), JList(<<>>), JNum(0), JList(<<>>), JAbsent)),
     LlmJson(JDict(SDev, JNull, JList(<<SGo>>), JList(<<>>), JNum(9), JList(<<>>), JAbsent)),
     LlmJson(JDict(SDev, JNum(5), JList(<<>>), JList(<<>>), JNum(9), JList(<<>>), JAbsent)),
     LlmJson(JDict(JNum(7), JList(<<SPy>>), JList(<<>>), JList(<<>>), JNum(15), JList(<<>>), JAbsent)),
     LlmJson(JList(<<JNum(1)>>)), LlmJson(JList(<<>>)), LlmJson(JNull)}

SearchInit ==
    /\ resumes \in SearchDbs
    /\ jobs = [id \in JobIds |-> NoRow]
    /\ store = IndexedStore
    /\ last = NoCall
    /\ query = QPyDev
    /\ llm \in SearchReplies
    /\ requirements = NotYet
    /\ AggregatorIdle
    /\ found \in FoundOptions(IndexedStore)
    /\ search_result = NoResult
    /\ ProcIdle

\* a call of search_candidates(query)
SearchCandidates ==
    /\ ~search_result.done
    /\ search_result' = search_candidates(resumes, query, llm, found)
    /\ requirements' = extract_requirements(query, llm)
    /\ IF search_result'.success /\ found.embedding_ok
       THEN /\ all_results' = collect_results(found, TopK)
            /\ ranked' = [top_k |-> TopK,
                          results |-> aggregate_and_validate_results(all_results', TopK)]
       ELSE UNCHANGED aggVars
    /\ UNCHANGED <<idxVars, query, llm, found, procVars>>

\* a direct call of the aggregator on the hits of the request
RankAgain(top_k) ==
    /\ search_result.done
    /\ AggregateResults(top_k)

SearchNext ==
    \/ SearchCandidates
    \/ \E top_k \in 1..MaxTopK : RankAgain(top_k)

SpecSearch == SearchInit /\ [][SearchNext]_vars

\* a reply that is valid JSON but not the expected object
SchemaViolation(value) ==
    \/ value.t # "dict"
    \/ /\ value.t = "dict"
       /\ \/ value.skills_required.t \notin {"list", "absent"}
          \/ value.technologies.t \notin {"list", "absent"}
          \/ value.job_title.t \notin {"str", "absent"}

\* C7: when the LLM reply is valid JSON that violates the schema,
\* search_candidates does not abort with an error result and continues with
\* the fallback requirements.
C7_SchemaViolationFallsBack ==
    (search_result.done /\ llm.kind = "json" /\ SchemaViolation(llm.value)) =>
        /\ search_result.success
        /\ search_result.requirements = search_fallback

HasNote(response) == \E i \in DOMAIN response : response[i] = FallbackNote

\* retrieval, aggregation and rehydration ran for the request: the valid
\* hits were collected, and every resume they rank whose row passes the
\* quality gate is among the candidates
SearchRan ==
    /\ search_result.success
    /\ found.embedding_ok =>
          /\ all_results = collect_results(found, TopK)
          /\ \A i \in DOMAIN aggregate_and_validate_results(all_results, TopK) :
                LET id == aggregate_and_validate_results(all_results, TopK)[i].resume_id
                IN  (/\ resumes[id] # NoRow
                     /\ validate_candidate_quality(get_verified_candidate_data(id, resumes[id]),
                                                   search_result.requirements))
                    => \E k \in DOMAIN search_result.candidates :
                          /\ search_result.candidates[k].resume_id = id
                          /\ search_result.candidates[k].name = strip(resumes[id].name)

NonIncreasing(scores) == \A i \in 1..(Len(scores) - 1) : scores[i] >= scores[i + 1]

\* C10: the aggregator returns at most top_k entries in non-increasing order
\* of final_score, and the final candidate list of search_candidates is
\* non-increasing in search_score.
C10_RankingOrder ==
    /\ ranked.top_k > 0 =>
          /\ Len(ranked.results) <= ranked.top_k
          /\ NonIncreasing([i \in DOMAIN ranked.results |-> ranked.results[i].final_score])
    /\ search_result.done =>
          NonIncreasing([i \in DOMAIN search_result.candidates |->
                            search_result.candidates[i].search_score])

\* a search whose two candidates were ranked against the order of their hits,
\* followed by an aggregator call that top_k cut short
C10_Witness ==
    /\ Len(search_result.candidates) = 2
    /\ search_result.candidates[1].search_score > search_result.candidates[2].search_score
    /\ all_results[1].resume_id = search_result.candidates[2].resume_id
    /\ ranked.top_k = 1 /\ Len(ranked.results) = 1
    /\ ranked.results[1].resume_id = search_result.candidates[1].resume_id

\* the resumes the aggregator ranked for the request
RankedForSearch == aggregate_and_validate_results(all_results, TopK)

Returned(id) ==
    \E k \in DOMAIN search_result.candidates : search_result.candidates[k].resume_id = id

\* C11: no candidate in the output of search_candidates lacks a name, lacks
\* both email and phone, or has skills, experience and education all empty.
C11_QualityGate ==
    search_result.done =>
        \A k \in DOMAIN search_result.candidates :
            LET c == search_result.candidates[k]
            IN  /\ c.name # <<>>
                /\ c.email # <<>> \/ c.phone # <<>>
                /\ c.skills # <<>> \/ c.experience # <<>> \/ c.education # <<>>

\* the top-ranked resume has no contact data and is left out, the one ranked
\* below it is returned
C11_Witness ==
    /\ search_result.done /\ Len(RankedForSearch) = 2
    /\ resumes[RankedForSearch[1].resume_id] = RowNoContact
    /\ RankedForSearch[1].final_score > RankedForSearch[2].final_score
    /\ ~Returned(RankedForSearch[1].resume_id)
    /\ Returned(RankedForSearch[2].resume_id)

\* the skills a requirement set asks for, lower-cased
AskedSkills ==
    IF search_result.requirements.t = "dict" /\ search_result.requirements.skills_required.t = "list"
    THEN {strip(lower(search_result.requirements.skills_required.v[i].v)) :
             i \in DOMAIN search_result.requirements.skills_required.v}
    ELSE {}

Exhibits(c, asked) ==
    \/ \E i \in DOMAIN c.skills : IsSubstring(asked, strip(lower(c.skills[i])))
    \/ \E i \in DOMAIN c.experience :
          IsSubstring(asked, lower(c.experience[i].title \o <<WS>> \o c.experience[i].description))

\* C12: when the requirements name skills, every candidate returned has a
\* skill containing a required skill (case-insensitive) or an experience
\* entry whose text contains one.
C12_SkillGate ==
    (search_result.done /\ AskedSkills # {}) =>
        \A k \in DOMAIN search_result.candidates :
            \E asked \in AskedSkills : Exhibits(search_result.candidates[k], asked)

\* of two ranked resumes with contact data and content, the one that shows no
\* required skill is left out and the other is returned
C12_Witness ==
    /\ search_result.done /\ AskedSkills # {} /\ Len(RankedForSearch) = 2
    /\ \E i \in 1..2 :
          LET id == RankedForSearch[i].resume_id
              other == RankedForSearch[3 - i].resume_id
          IN  /\ resumes[id] = RowUnknown
              /\ ~Returned(id)
              /\ Returned(other)
              /\ ~has_skill_match(get_verified_candidate_data(other, resumes[other]),
                                  required_skills(search_result.requirements.skills_required))

(***************************************************************************)
(* The whole service: writes to the system of record, index maintenance    *)
(* with a vector store that may fail, and searches in between              *)
(***************************************************************************)
\* the rows written for each resume id
SystemRows(id) == IF id = 1 THEN {RowAnn} ELSE {RowUnknown, RowBob}

\* the vector store works, or its delete-by-filter raises at once
SystemFaults == {NoFault, [NoFault EXCEPT !.del = 0]}

SystemReplies ==
    {LlmRaises,
     LlmJson(JDict(SDev, JList(<<SPy>>), JList(<<>>), JList(<<>>), JNum(9), JList(<<>>), JAbsent))}

\* the hits of a search on store st: one similarity value is enough here
SystemFound(st) ==
    {[embedding_ok |-> TRUE, raised |-> {}, hits |-> hits] : hits \in HitLists(st, {100})}

SystemInit ==
    /\ resumes = [id \in SearchIds |-> NoRow]
    /\ jobs = [id \in JobIds |-> NoRow]
    /\ store = EmptyStore
    /\ last = NoCall
    /\ RequestIdle

\* search_candidates(query) on the current database and index
SystemSearch(q, reply, fnd) ==
    /\ ~search_result.done
    /\ query' = q /\ llm' = reply /\ found' = fnd
    /\ requirements' = extract_requirements(q, reply)
    /\ search_result' = search_candidates(resumes, q, reply, fnd)
    /\ all_results' = collect_results(fnd, TopK)
    /\ ranked' = [top_k |-> TopK, results |-> aggregate_and_validate_results(all_results', TopK)]
    /\ UNCHANGED <<idxVars, procVars>>

\* the bundle goes back to the route; the request is over
ReturnBundle ==
    /\ search_result.done
    /\ query' = <<>>
    /\ llm' = [kind |-> "none", value |-> NotYet]
    /\ requirements' = NotYet
    /\ all_results' = <<>> /\ ranked' = NotRanked
    /\ found' = NoFound /\ search_result' = NoResult
    /\ UNCHANGED <<idxVars, procVars>>

SystemNext ==
    \/ /\ ~search_result.done
       /\ \/ \E id \in SearchIds : \E row \in SystemRows(id) : DbPutResume(id, row)
          \/ \E id \in SearchIds : DbDeleteResume(id)
          \/ \E id \in SearchIds, operation \in SyncOps, f \in SystemFaults :
                AutoSyncResume(id, operation, f)
          \/ \E id \in SearchIds, k \in {0, Len(collections_to_clean)} :
                DeleteResumeFromIndex(id, k)
    \/ \E reply \in SystemReplies : \E fnd \in SystemFound(store) :
          SystemSearch(QPyDev, reply, fnd)
    \/ ReturnBundle

SpecSystem == SystemInit /\ [][SystemNext]_vars

\* C13: every candidate in a search_candidates result is a resume that is in
\* the system of record when the search rehydrates it; a hit whose resume is
\* no longer there yields no candidate.
C13_NoDeletedCandidate ==
    search_result.done =>
        \A k \in DOMAIN search_result.candidates :
            /\ search_result.candidates[k].resume_id \in DOMAIN resumes
            /\ resumes[search_result.candidates[k].resume_id] # NoRow

\* a search that hit a point of a deleted resume whose points are still in
\* the index, and returned the other resume only
C13_Witness ==
    /\ search_result.done
    /\ \E i \in DOMAIN all_results :
          /\ resumes[all_results[i].resume_id] = NoRow
          /\ Total(Counts(store, "resume", all_results[i].resume_id)) > 0
          /\ \E k \in DOMAIN RankedForSearch :
                RankedForSearch[k].resume_id = all_results[i].resume_id
    /\ Len(search_result.candidates) = 1

\* other contents for the payload of a point
Paints == {[text |-> <<"z">>, name |-> <<"Eve">>], [text |-> <<>>, name |-> <<>>]}

\* the Qdrant answers that differ from fnd only in what the matching
\* points' payloads say: same points of the same resumes, same scores
Repainted(fnd) ==
    {[fnd EXCEPT !.hits =
        [i \in DOMAIN fnd.hits |->
            [fnd.hits[i] EXCEPT !.payload.text = paint[i].text,
                                !.payload.name = paint[i].name]]] :
        paint \in [DOMAIN fnd.hits -> Paints]}

ContactAndHistory(c) ==
    <<c.name, c.email, c.phone, c.skills, c.experience, c.education>>

\* C14: the name, email, phone, skills, experience and education of every
\* returned candidate are those of the resume's current row in the system of
\* record; a second run of the same search whose matching points carry other
\* payload contents (same resume ids, same scores) returns the same values of
\* these fields for every candidate it returns.
C14_VerifiedRehydration ==
    search_result.done =>
        /\ \A k \in DOMAIN search_result.candidates :
              LET c == search_result.candidates[k]
              IN  ContactAndHistory(c)
                      = ContactAndHistory(get_verified_candidate_data(c.resume_id, resumes[c.resume_id]))
        /\ \A alt \in Repainted(found) :
              LET other == search_candidates(resumes, query, llm, alt)
              IN  \A j \in DOMAIN other.candidates :
                     /\ ContactAndHistory(other.candidates[j])
                            = ContactAndHistory(get_verified_candidate_data(
                                  other.candidates[j].resume_id,
                                  resumes[other.candidates[j].resume_id]))
                     /\ \A k \in DOMAIN search_result.candidates :
                            search_result.candidates[k].resume_id = other.candidates[j].resume_id
                                => ContactAndHistory(search_result.candidates[k])
                                       = ContactAndHistory(other.candidates[j])

\* a candidate is returned although the matching point still carries the
\* name of an earlier version of the row, and a run on repainted payloads
\* returns the candidate too
C14_Witness ==
    /\ search_result.done
    /\ \E k \in DOMAIN search_result.candidates, i \in DOMAIN found.hits :
          /\ found.hits[i].payload.resume_id = search_result.candidates[k].resume_id
          /\ found.hits[i].payload.name # search_result.candidates[k].name
          /\ \E alt \in Repainted(found) :
                /\ alt # found
                /\ \E j \in DOMAIN search_candidates(resumes, query, llm, alt).candidates :
                      search_candidates(resumes, query, llm, alt).candidates[j].resume_id
                          = search_result.candidates[k].resume_id

\* C15: index_single_resume and index_single_job report success only if the
\* call upserted at least one chunk of the record into the vector store; when
\* every chunk fails to embed or upsert the result is failure.  Stated for
\* index_single_job, which only adds points: a call that returns success has
\* made the jobs collection larger.
C15_IndexFailurePolicy ==
    [][(last'.op = "index_single_job" /\ last'.ok)
          => BagCardinality(store'["jobs"]) > BagCardinality(store["jobs"])]_vars

(***************************************************************************)
(* Bulk reindex: index_all_resumes and the force-sync route                *)
(***************************************************************************)
\* Resume.query.all() / Job.query.all(): the rows of ids 1..n that exist
RECURSIVE query_all(_, _, _)
query_all(db, kind, n) ==
    IF n = 0 THEN <<>>
    ELSE query_all(db, kind, n - 1)
         \o (IF n \in DOMAIN db /\ db[n] # NoRow THEN <<[kind |-> kind, id |-> n]>> ELSE <<>>)

\* the loop body's bookkeeping that stops the loop at the first failure
count_outcome_abort(b, ok) ==
    LET rec == Head(b.todo)
        done == [b EXCEPT !.todo = IF ok THEN Tail(@) ELSE <<>>,
                          !.attempted = Append(@, [kind |-> rec.kind, id |-> rec.id, ok |-> ok])]
    IN  IF b.route = "index_all_resumes"
        THEN [done EXCEPT !.results.success = IF ok THEN @ + 1 ELSE @,
                          !.results.failed = IF ok THEN @ ELSE @ + 1]
        ELSE [done EXCEPT !.results[rec.kind].success = IF ok THEN @ + 1 ELSE @,
                          !.results[rec.kind].failed = IF ok THEN @ ELSE @ + 1]

\* the loop body's bookkeeping for the record at the head of todo
\* (index_all_resumes lines 240-244, force_sync_all lines 701-722)
count_outcome(b, ok) ==
    LET rec == Head(b.todo)
        done == [b EXCEPT !.todo = Tail(@),
                          !.attempted = Append(@, [kind |-> rec.kind, id |-> rec.id, ok |-> ok])]
    IN  IF b.route = "index_all_resumes"
        THEN [done EXCEPT !.results.success = IF ok THEN @ + 1 ELSE @,
                          !.results.failed = IF ok THEN @ ELSE @ + 1]
        ELSE [done EXCEPT !.results[rec.kind].success = IF ok THEN @ + 1 ELSE @,
                          !.results[rec.kind].failed = IF ok THEN @ ELSE @ + 1]

\* the faults of one record of a bulk run
BulkFaults ==
    {NoFault, [NoFault EXCEPT !.del = 0], [NoFault EXCEPT !.chunk = {1}],
     [NoFault EXCEPT !.ups = {"skills"}], [NoFault EXCEPT !.ups = ResumeCollections]}

BulkRows == {RowAnn, RowBlank, RowEmpty, NoRow}

BulkInit ==
    /\ resumes \in [SearchIds -> BulkRows]
    /\ jobs \in [JobIds -> JobRows \cup {NoRow}]
    /\ store = EmptyStore
    /\ last = NoCall
    /\ RequestIdle

\* index_all_resumes up to its loop; raises: Resume.query.all() raises
IndexAllResumes(raises) ==
    /\ bulk.pc = "idle"
    /\ bulk' = IF raises
               THEN [NoBulk EXCEPT !.pc = "done", !.route = "index_all_resumes",
                                   !.results = [success |-> 0, failed |-> 0, total |-> 0]]
               ELSE LET all == query_all(resumes, "resume", Cardinality(SearchIds))
                    IN  [NoBulk EXCEPT !.pc = "loop", !.route = "index_all_resumes",
                                       !.read = TRUE, !.todo = all,
                                       !.results = [success |-> 0, failed |-> 0,
                                                    total |-> Len(all)]]
    /\ UNCHANGED <<idxVars, exVars, aggVars, srchVars, conversation_history, http_response, calls, run>>

\* one pass of the loop of index_all_resumes
IndexNextResume(f) ==
    /\ bulk.pc = "loop" /\ bulk.route = "index_all_resumes" /\ bulk.todo # <<>>
    /\ \E r \in {index_resume(store, Head(bulk.todo).id, resumes[Head(bulk.todo).id], f)} :
          /\ store' = r.store
          /\ bulk' = count_outcome(bulk, r.ok)
    /\ UNCHANGED <<resumes, jobs, last, exVars, aggVars, srchVars, conversation_history, http_response, calls, run>>

\* force_sync_all up to its loops; raises: a query raises (the outer except)
ForceSyncAll(raises) ==
    /\ bulk.pc = "idle"
    /\ bulk' = IF raises
               THEN [NoBulk EXCEPT !.pc = "done", !.route = "force_sync_all", !.status = 500]
               ELSE [NoBulk EXCEPT !.pc = "loop", !.route = "force_sync_all", !.read = TRUE,
                        !.todo = query_all(resumes, "resume", Cardinality(SearchIds))
                                 \o query_all(jobs, "job", MaxJobId),
                        !.results = [resume |-> [success |-> 0, failed |-> 0],
                                     job |-> [success |-> 0, failed |-> 0]]]
    /\ UNCHANGED <<idxVars, exVars, aggVars, srchVars, conversation_history, http_response, calls, run>>

\* one pass of the resume loop of force_sync_all
ForceSyncResume(f) ==
    /\ bulk.pc = "loop" /\ bulk.route = "force_sync_all" /\ bulk.todo # <<>>
    /\ Head(bulk.todo).kind = "resume"
    /\ \E r \in {index_single_resume(store, Head(bulk.todo).id,
                                      resumes[Head(bulk.todo).id], f)} :
          /\ store' = r.store
          /\ bulk' = count_outcome(bulk, r.success)
    /\ UNCHANGED <<resumes, jobs, last, exVars, aggVars, srchVars, conversation_history, http_response, calls, run>>

\* one pass of the job loop of force_sync_all
ForceSyncJob(failed) ==
    /\ bulk.pc = "loop" /\ bulk.route = "force_sync_all" /\ bulk.todo # <<>>
    /\ Head(bulk.todo).kind = "job"
    /\ \E r \in {auto_sync_job(store, Head(bulk.todo).id, jobs[Head(bulk.todo).id],
                                "create", failed)} :
          /\ store' = r.store
          /\ bulk' = count_outcome(bulk, r.ok)
    /\ UNCHANGED <<resumes, jobs, last, exVars, aggVars, srchVars, conversation_history, http_response, calls, run>>

\* the loops are over: the counts are returned
BulkReturn ==
    /\ bulk.pc = "loop" /\ bulk.todo = <<>>
    /\ bulk' = [bulk EXCEPT !.pc = "done",
                            !.status = IF bulk.route = "force_sync_all" THEN 200 ELSE 0]
    /\ UNCHANGED <<idxVars, exVars, aggVars, srchVars, conversation_history, http_response, calls, run>>

BulkNext ==
    \/ \E raises \in BOOLEAN : IndexAllResumes(raises)
    \/ \E f \in BulkFaults : IndexNextResume(f)
    \/ \E raises \in BOOLEAN : ForceSyncAll(raises)
    \/ \E f \in BulkFaults : ForceSyncResume(f)
    \/ \E failed \in {{}, {1}} : ForceSyncJob(failed)
    \/ BulkReturn

\* a bulk run is a single thread: it takes its next step as long as it has one
SpecBulk == BulkInit /\ [][BulkNext]_vars /\ WF_vars(BulkNext)

\* the ids of a sequence of records
Ids(recs) == [i \in DOMAIN recs |-> [kind |-> recs[i].kind, id |-> recs[i].id]]

CountOf(kind) ==
    Cardinality({i \in DOMAIN bulk.attempted : bulk.attempted[i].kind = kind})

BulkCountsRight ==
    bulk.pc = "done" =>
        /\ bulk.read /\ bulk.route = "index_all_resumes" =>
              /\ Ids(bulk.attempted) = query_all(resumes, "resume", Cardinality(SearchIds))
              /\ bulk.results.total = Len(bulk.attempted)
        /\ bulk.route = "index_all_resumes" =>
              bulk.results.success + bulk.results.failed = bulk.results.total
        /\ bulk.read /\ bulk.route = "force_sync_all" =>
              /\ Ids(bulk.attempted) = query_all(resumes, "resume", Cardinality(SearchIds))
                                       \o query_all(jobs, "job", MaxJobId)
              /\ bulk.results.resume.success + bulk.results.resume.failed = CountOf("resume")
              /\ bulk.results.job.success + bulk.results.job.failed = CountOf("job")

\* C16: a bulk reindex (index_all_resumes, the force-sync route) attempts each
\* record of the corpus exactly once, also after records that failed, returns
\* counts with success + failed = total, and terminates.
C16_BulkReindex == []BulkCountsRight /\ <>(bulk.pc = "done")

\* a finished run whose first record failed and whose second was indexed
C16_Witness ==
    /\ bulk.pc = "done"
    /\ Len(bulk.attempted) >= 2
    /\ ~bulk.attempted[1].ok
    /\ bulk.attempted[2].ok

(***************************************************************************)
(* The search route (enhanced_talent_search)                               *)
(***************************************************************************)
\* messages the service may hold, over all conversations, before the model
\* stops sending requests
MaxHistory == 11

\* conversation_history[-10:]
HistoryCap == 10

LastMessages(history, n) ==
    IF Len(history) <= n THEN history ELSE SubSeq(history, Len(history) - n + 1, Len(history))

\* who calls: no session, a candidate account, an HR account
Callers == {"anonymous", "candidate", "hr"}

\* the request bodies: no JSON body, or a query (blank or not)
NoBody == <<"no body">>
RouteQueries == {NoBody, <<>>, <<WS>>, <<WS>> \o QPyDev}

RouteReplies == {LlmRaises, LlmJson(JList(<<JNum(1)>>))}

\* what Qdrant answers in these requests: one skills hit of resume 1
RouteFound ==
    {f \in SystemFound(IndexedStore) :
        /\ Len(f.hits) = 1 /\ f.hits[1].collection = "skills"
        /\ f.hits[1].payload.resume_id = 1}

UserMessage(q) == [role |-> "user", content |-> q]

AssistantMessage(text, n) == [role |-> "assistant", content |-> text, candidates_count |-> n]

HttpError(status, error) ==
    [status |-> status, success |-> FALSE, error |-> error, conversation_id |-> ""]

RouteInit ==
    /\ resumes = [id \in SearchIds |-> IF id = 1 THEN RowAnn ELSE RowUnknown]
    /\ jobs = [id \in JobIds |-> NoRow]
    /\ store = IndexedStore
    /\ last = NoCall
    /\ RequestIdle

\* enhanced_talent_search from the history lookup on (lines 512-600): the
\* message is appended to the list the service holds when there is one, to a
\* new list otherwise; the list is cut and stored only after a successful
\* search
route_outcome(history, conversation_id, q, bundle) ==
    LET stored == history[conversation_id]
        asked == Append(stored, UserMessage(q))
        held == IF stored = <<>> THEN history ELSE [history EXCEPT ![conversation_id] = asked]
    IN  IF ~bundle.success
        THEN [history |-> held,
              response |-> [status |-> 400, success |-> FALSE, error |-> bundle.error,
                            conversation_id |-> conversation_id]]
        ELSE [history |-> [history EXCEPT ![conversation_id] =
                              LastMessages(Append(asked, AssistantMessage(bundle.response,
                                                                          Len(bundle.candidates))),
                                           HistoryCap)],
              response |-> [status |-> 200, success |-> TRUE, error |-> <<>>,
                            conversation_id |-> conversation_id]]

RECURSIVE Held(_, _)
Held(history, ids) ==
    IF ids = {} THEN 0
    ELSE LET c == CHOOSE x \in ids : TRUE
         IN  Len(history[c]) + Held(history, ids \ {c})

\* POST /search
EnhancedTalentSearch(caller, body, conversation_id, reply, fnd) ==
    /\ Held(conversation_history, ConversationIds) < MaxHistory
    /\ IF caller = "anonymous"
       THEN /\ http_response' = HttpError(401, <<"Authentication required">>)
            /\ UNCHANGED conversation_history
       ELSE IF caller # "hr"
       THEN /\ http_response' = HttpError(403, <<"HR access required">>)
            /\ UNCHANGED conversation_history
       ELSE IF body = NoBody
       THEN /\ http_response' = HttpError(500, <<"Internal server error">>)
            /\ UNCHANGED conversation_history
       ELSE IF strip(body) = <<>>
       THEN /\ http_response' = HttpError(400, <<"Query is required">>)
            /\ UNCHANGED conversation_history
       ELSE \E out \in {route_outcome(conversation_history, conversation_id, strip(body),
                                      search_candidates(resumes, strip(body), reply, fnd))} :
               /\ conversation_history' = out.history
               /\ http_response' = out.response
    /\ UNCHANGED <<idxVars, exVars, aggVars, srchVars, bulk, calls, run>>

RouteNext ==
    \E caller \in Callers, body \in RouteQueries, conversation_id \in ConversationIds,
       reply \in RouteReplies, fnd \in RouteFound :
        EnhancedTalentSearch(caller, body, conversation_id, reply, fnd)

SpecRoute == RouteInit /\ [][RouteNext]_vars

\* the texts of the exceptions search_candidates can catch
CaughtTexts == {str_e(JList(<<JNum(1)>>)), str_e(JStr(<<"x">>)), str_e(JNum(10))}

\* C17: on every failure path of the search route the error string of the
\* HTTP response is one of a fixed set of generic messages and holds no text
\* of a caught exception.
C17_NoRawExceptionText ==
    http_response.status \notin {0, 200} =>
        /\ http_response.error \in {<<"Authentication required">>, <<"HR access required">>,
                               <<"Query is required">>, <<"Internal server error">>,
                               <<"Search failed">>}
        /\ \A text \in CaughtTexts : ~IsSubstring(text, http_response.error)

\* C18: after any sequence of search requests, successful, rejected or
\* failed, on any conversation ids, the history the service holds for each
\* conversation id has at most 10 messages.
C18_HistoryCap ==
    \A c \in ConversationIds : Len(conversation_history[c]) <= HistoryCap

(***************************************************************************)
(* Two index_single_resume calls on the same resume at the same time: each *)
(* call to the Qdrant client is one step                                   *)
(***************************************************************************)
ConcurrentInit ==
    /\ resumes \in [ResumeIds -> {RowAnn, RowBob}]
    /\ jobs = [id \in JobIds |-> NoRow]
    /\ store \in {EmptyStore, index_single_resume(EmptyStore, 1, RowAnn, NoFault).store}
    /\ last = NoCall
    /\ RequestIdle

\* index_single_resume(resume) is called (the sync route, a listener)
BeginIndex(t) ==
    /\ calls[t].pc = "idle"
    /\ calls' = [calls EXCEPT ![t] = [pc |-> "delete", k |-> 1, points |-> <<>>]]
    /\ UNCHANGED <<idxVars, exVars, aggVars, srchVars, bulk, conversation_history, http_response, run>>

\* one qdrant_client.delete of delete_resume_from_index; after the last one
\* the call chunks and embeds the resume it was given
DeleteStep(t, id) ==
    /\ calls[t].pc = "delete"
    /\ store' = [store EXCEPT ![collections_to_clean[calls[t].k]] =
                     qdrant_delete(@, "resume_id", id)]
    /\ calls' = [calls EXCEPT ![t] =
                    IF calls[t].k < Len(collections_to_clean)
                    THEN [@ EXCEPT !.k = @ + 1]
                    ELSE [pc |-> "upsert", k |-> 1,
                          points |-> prepared_points(chunk_resume_text(id, resumes[id]),
                                                     NoFault, 1)]]
    /\ UNCHANGED <<resumes, jobs, last, exVars, aggVars, srchVars, bulk,
                   conversation_history, http_response, run>>

\* one pass of the upsert loop: qdrant_client.upsert when the collection has points
UpsertStep(t) ==
    /\ calls[t].pc = "upsert"
    /\ LET c == collections_to_clean[calls[t].k]
       IN  store' = [store EXCEPT ![c] = @ (+) SeqToBag(points_of_collection(calls[t].points, c))]
    /\ calls' = [calls EXCEPT ![t] =
                    IF calls[t].k < Len(collections_to_clean)
                    THEN [@ EXCEPT !.k = @ + 1]
                    ELSE [pc |-> "done", k |-> 0, points |-> <<>>]]
    /\ UNCHANGED <<resumes, jobs, last, exVars, aggVars, srchVars, bulk,
                   conversation_history, http_response, run>>

ConcurrentNext ==
    \E t \in IndexCallers :
        \/ BeginIndex(t)
        \/ \E id \in ResumeIds : DeleteStep(t, id)
        \/ UpsertStep(t)

SpecConcurrent == ConcurrentInit /\ [][ConcurrentNext]_vars

\* C19: once two index_single_resume calls on the same resume have both
\* completed, in whatever order their delete and upsert steps ran, the index
\* holds for the resume the points a single call leaves.
C19_ConcurrentIndexSafe ==
    (\A t \in IndexCallers : calls[t].pc = "done") =>
        \A id \in ResumeIds :
            store = index_single_resume(EmptyStore, id, resumes[id], NoFault).store

(***************************************************************************)
(* search_candidates stage by stage                                        *)
(***************************************************************************)
Stages == <<"ExtractRequirements", "Retrieve", "Aggregate", "Rehydrate", "Summarize", "Done">>

StageIndex(stage) == CHOOSE i \in DOMAIN Stages : Stages[i] = stage

StagesInit ==
    /\ resumes \in SearchDbs
    /\ jobs = [id \in JobIds |-> NoRow]
    /\ store = IndexedStore
    /\ last = NoCall
    /\ query = QPyDev
    /\ llm \in SearchReplies
    /\ requirements = NotYet
    /\ AggregatorIdle
    /\ found \in FoundOptions(IndexedStore)
    /\ search_result = NoResult
    /\ calls = [t \in IndexCallers |-> NotCalled]
    /\ bulk = NoBulk
    /\ conversation_history = [c \in ConversationIds |-> <<>>]
    /\ http_response = NoResponse
    /\ run = [NoRun EXCEPT !.stage = "ExtractRequirements"]

\* Step 1 and the fallback test (lines 156-176): requirements.get raises on
\* a value that is not a dict, and the except of line 245 ends the run
StageExtract ==
    /\ run.stage = "ExtractRequirements"
    /\ \E extracted \in {extract_requirements(query, llm)} :
          /\ requirements' = extracted
          /\ IF Truthy(extracted) /\ extracted.t # "dict"
             THEN /\ run' = [run EXCEPT !.stage = "Aborted"]
                  /\ search_result' = Bundle(FALSE, <<>>, <<>>, NotYet,
                                             <<"Search failed: ">> \o str_e(extracted))
             ELSE /\ run' = [run EXCEPT !.stage = "Retrieve",
                                        !.reqs = IF ~Truthy(extracted) \/ ZeroConfidence(extracted)
                                                 THEN search_fallback ELSE extracted]
                  /\ UNCHANGED search_result
    /\ UNCHANGED <<idxVars, query, llm, aggVars, found, bulk, conversation_history,
                   http_response, calls>>

\* the embedding of the query and the searches of enhanced_semantic_search
\* (rag_service.py 722-783); without an embedding the search returns [] and
\* search_candidates returns at line 184
StageRetrieve ==
    /\ run.stage = "Retrieve"
    /\ IF ~found.embedding_ok
       THEN /\ run' = [run EXCEPT !.stage = "Done"]
            /\ search_result' = Bundle(TRUE, <<>>, <<NoCandidatesFound>>, run.reqs, <<>>)
            /\ UNCHANGED all_results
       ELSE /\ run' = [run EXCEPT !.stage = "Aggregate"]
            /\ all_results' = collect_results(found, TopK)
            /\ UNCHANGED search_result
    /\ UNCHANGED <<idxVars, exVars, ranked, found, bulk, conversation_history,
                   http_response, calls>>

\* _aggregate_and_validate_results, then the test of line 183
StageAggregate ==
    /\ run.stage = "Aggregate"
    /\ ranked' = [top_k |-> TopK, results |-> aggregate_and_validate_results(all_results, TopK)]
    /\ IF ranked'.results = <<>>
       THEN /\ run' = [run EXCEPT !.stage = "Done"]
            /\ search_result' = Bundle(TRUE, <<>>, <<NoCandidatesFound>>, run.reqs, <<>>)
       ELSE /\ run' = [run EXCEPT !.stage = "Rehydrate"]
            /\ UNCHANGED search_result
    /\ UNCHANGED <<idxVars, exVars, all_results, found, bulk, conversation_history,
                   http_response, calls>>

\* Steps 3 and 4: the verified data of the ranked ids, and the quality gate
StageRehydrate ==
    /\ run.stage = "Rehydrate"
    /\ run' = [run EXCEPT
                 !.stage = "Summarize",
                 !.candidates =
                     final_candidates(
                         ranked.results,
                         bulk_get_verified_candidates(
                             resumes,
                             [i \in DOMAIN ranked.results |-> ranked.results[i].resume_id]),
                         run.reqs)]
    /\ UNCHANGED <<idxVars, exVars, aggVars, srchVars, bulk, conversation_history,
                   http_response, calls>>

\* Step 5 and the return of the bundle
StageSummarize ==
    /\ run.stage = "Summarize"
    /\ run' = [run EXCEPT !.stage = "Done"]
    /\ search_result' = Bundle(TRUE, run.candidates,
                               generate_verified_response(run.candidates, run.reqs),
                               run.reqs, <<>>)
    /\ UNCHANGED <<idxVars, exVars, aggVars, found, bulk, conversation_history,
                   http_response, calls>>

StagesNext ==
    \/ StageExtract
    \/ StageRetrieve
    \/ StageAggregate
    \/ StageRehydrate
    \/ StageSummarize

\* a run is one thread: it takes its next step as long as it has one
SpecStages == StagesInit /\ [][StagesNext]_vars /\ WF_vars(StagesNext)

\* the LLM call raised, its reply is not JSON, or the JSON is not an object
ExtractionFailed ==
    \/ llm.kind \in {"raise", "malformed"}
    \/ llm.kind = "json" /\ llm.value.t # "dict"

InStageOrder ==
    run'.stage # run.stage =>
        \/ run'.stage = "Aborted"
        \/ /\ run.stage \in {Stages[i] : i \in DOMAIN Stages}
           /\ run'.stage \in {Stages[i] : i \in DOMAIN Stages}
           /\ StageIndex(run'.stage) > StageIndex(run.stage)

RunEndsWell ==
    /\ run.stage = "Done" => search_result.done /\ search_result.success
    /\ run.stage = "Aborted" =>
          search_result.done /\ ~search_result.success /\ search_result.error # <<>>
    /\ ExtractionFailed => run.stage # "Aborted"

\* C20: a search_candidates run passes its stages only in the order
\* ExtractRequirements, Retrieve, Aggregate, Rehydrate and validate,
\* Summarize, Done; it always ends, in Done with a success bundle or aborted
\* with a reported error; a failed extraction never aborts it.
C20_Orchestrator ==
    /\ [][InStageOrder]_vars
    /\ []RunEndsWell
    /\ <>(run.stage \in {"Done", "Aborted"})

(***************************************************************************)
(* Claims on the empty result and on outages                               *)
(***************************************************************************)
\* the job title of the requirements, when one is specified
SpecifiedTitle(reqs) ==
    IF reqs.t = "dict" /\ reqs.job_title.t = "str" /\ reqs.job_title.v # <<>>
       /\ reqs.job_title # not_specified
    THEN {reqs.job_title.v} ELSE {}

\* the first three skills of the requirements, when they are a list of strings
SpecifiedSkills(reqs) ==
    IF reqs.t = "dict" /\ reqs.skills_required.t = "list"
    THEN {reqs.skills_required.v[i].v :
             i \in {k \in DOMAIN reqs.skills_required.v :
                       k <= 3 /\ reqs.skills_required.v[k].t = "str"}}
    ELSE {}

\* C21: whenever a search ends with no candidates, because nothing was
\* retrieved or because every candidate was dropped, the response text is the
\* no-candidates message built from the requirements of the search, and it
\* names the job title and the skills that were specified.
C21_EmptyResultPath ==
    (search_result.done /\ search_result.success /\ search_result.candidates = <<>>) =>
        /\ search_result.response = generate_no_results_response(search_result.requirements)
        /\ \A text \in SpecifiedTitle(search_result.requirements)
                       \cup SpecifiedSkills(search_result.requirements) :
              IsSubstring(text, search_result.response)

\* the searches of a request produced no usable data: the query embedding
\* failed, or the search of every collection raised
Outage(fnd) ==
    \/ ~fnd.embedding_ok
    \/ \A i \in DOMAIN search_configs : search_configs[i] \in fnd.raised

SearchUnavailable == <<"Search temporarily unavailable">>

\* C22: when the query embedding or every collection search fails, the caller
\* receives a "search temporarily unavailable" failure and not a successful
\* empty result; when only some collection searches fail, the hits of the
\* other collections are still aggregated and returned.
C22_OutageDistinguishable ==
    search_result.done =>
        /\ Outage(found) =>
              /\ ~search_result.success
              /\ IsSubstring(SearchUnavailable, search_result.error)
        /\ (~Outage(found) /\ found.raised # {} /\ search_result.success) =>
              ranked.results = aggregate_and_validate_results(
                                   weighted_valid_hits(
                                       SelectSeq(found.hits,
                                                 LAMBDA h : h.collection \notin found.raised)),
                                   TopK)

(***************************************************************************)
(* Claims on the chunker and on hit validation                             *)
(***************************************************************************)
\* the chunks of a record whose text is empty or whitespace only
BlankChunks(id, r) ==
    {i \in DOMAIN chunk_resume_text(id, r) : strip(chunk_resume_text(id, r)[i].text) = <<>>}

\* the stored resume points whose text is empty or whitespace only
BlankPoints(st) ==
    UNION {{p \in BagToSet(st[c]) : strip(p.text) = <<>>} : c \in ResumeCollections}

RECURSIVE SumRaw(_)
SumRaw(hits) == IF hits = <<>> THEN 0 ELSE Head(hits).original_score + SumRaw(Tail(hits))

\* resume a has one hit in the skills collection and one in the experience
\* collection, resume b has hits in one collection only, and the average raw
\* score of b is higher than that of a
DiversityScenario(hits, a, b) ==
    /\ Len(HitsOf(hits, a)) = 2
    /\ Len(InCollection(HitsOf(hits, a), "skills")) = 1
    /\ Len(InCollection(HitsOf(hits, a), "experience")) = 1
    /\ HitsOf(hits, b) # <<>>
    /\ \A i \in DOMAIN HitsOf(hits, b) : HitsOf(hits, b)[i].collection = HitsOf(hits, b)[1].collection
    /\ SumRaw(HitsOf(hits, b)) * Len(HitsOf(hits, a)) > SumRaw(HitsOf(hits, a)) * Len(HitsOf(hits, b))

\* Scenario 5: resume 1 matches skills at 0.20 and experience at 0.00,
\* resume 2 matches experience at 0.20
Scenario5Hits ==
    << WeightedHit(PointOf(1, "skills"), 20, "skills"),
       WeightedHit(PointOf(2, "experience"), 20, "experience"),
       WeightedHit(PointOf(1, "experience"), 0, "experience") >>

\* C24: Scenario 5: on the hits of the scenario (resume 1 in skills and in
\* experience, resume 2 in one collection with the higher average raw score)
\* _aggregate_and_validate_results ranks resume 1 strictly above resume 2.
C24_DiversityBonusRanks ==
    (all_results = Scenario5Hits /\ ranked # NotRanked) =>
        /\ DiversityScenario(all_results, 1, 2)
        /\ ranked.results # <<>>
        /\ ranked.results[1].resume_id = 1
        /\ ranked.top_k >= 2 =>
              /\ Len(ranked.results) = 2
              /\ ranked.results[2].resume_id = 2
              /\ ranked.results[1].final_score > ranked.results[2].final_score

C24_Witness ==
    /\ ranked # NotRanked
    /\ ranked.top_k >= 2
    /\ DiversityScenario(all_results, 1, 2)
    /\ Len(ranked.results) = 2
    /\ ranked.results[1].resume_id = 1
    /\ ranked.results[2].resume_id = 2
    /\ ranked.results[1].final_score > ranked.results[2].final_score

(***************************************************************************)
(* Hit validation over arbitrary payloads (src/rag_service.py 757-822)     *)
(***************************************************************************)
\* a float that is not a number
JNaN == [t |-> "nan", v |-> <<>>]

Digits == {"0", "1", "2", "3", "4", "5", "6", "7", "8", "9"}

\* int(value) returns: a number or a boolean, or a string of digits with
\* optional surrounding whitespace
IntParses(value) ==
    CASE value.t \in {"num", "bool"} -> TRUE
      [] value.t = "str" ->
            /\ strip(value.v) # <<>>
            /\ \A i \in DOMAIN strip(value.v) : strip(value.v)[i] \in Digits
      [] OTHER -> FALSE

\* `0 <= result.score <= 1`, in hundredths; None raises TypeError, which the
\* function catches, and every comparison with NaN is False
ScoreInRange(score) == score.t = "num" /\ score.v[1] >= 0 /\ score.v[1] <= 100

\* payload['text'].strip() is non-empty; .strip() of a non-string raises
\* AttributeError, which the function catches
TextNotBlank(text) == text.t = "str" /\ strip(text.v) # <<>>

\* _validate_search_result without the test of the score
validate_result_any_score(result) ==
    /\ Truthy(result.payload.resume_id)
    /\ Truthy(result.payload.text)
    /\ IntParses(result.payload.resume_id)
    /\ TextNotBlank(result.payload.text)

\* RAGTalentService._validate_search_result on a result with any payload and
\* score; validate_search_result is its restriction to stored payloads
validate_result(result) ==
    /\ Truthy(result.payload.resume_id)
    /\ Truthy(result.payload.text)
    /\ IntParses(result.payload.resume_id)
    /\ ScoreInRange(result.score)
    /\ TextNotBlank(result.payload.text)

\* the loop over the results of one collection (lines 766-778): a result that
\* fails validation is skipped; payload['type'] of a payload without the key
\* raises KeyError, which ends the loop in the collection's except
RECURSIVE valid_results(_)
valid_results(results) ==
    IF results = <<>> THEN <<>>
    ELSE IF ~validate_result(Head(results)) THEN valid_results(Tail(results))
    ELSE IF Head(results).payload.type = JAbsent THEN <<>>
    ELSE <<WeightedHit(Head(results).payload, Head(results).score.v[1], Head(results).collection)>>
         \o valid_results(Tail(results))

\* all_results after the four searches
collect_valid_results(hits) ==
    valid_results(InCollection(hits, search_configs[1]))
    \o valid_results(InCollection(hits, search_configs[2]))
    \o valid_results(InCollection(hits, search_configs[3]))
    \o valid_results(InCollection(hits, search_configs[4]))

ScoredPoint(c, id, text, type, score) ==
    [collection |-> c, score |-> score,
     payload |-> [resume_id |-> id, text |-> text, type |-> type, name |-> <<"Ann">>]]

GoodIds == {JNum(1), JStr(<<"2">>)}
BadIds == {JNum(0), JStr(<<"x">>), JStr(<<>>), JNull, JAbsent, JList(<<JNum(1)>>)}
GoodTexts == {JStr(<<"t">>)}
BadTexts == {JStr(<<WS>>), JStr(<<>>), JNum(5), JNull, JAbsent}
GoodScores == {JNum(0), JNum(50), JNum(100)}
BadScores == {JNum(110), JNum(0 - 10), JNaN, JNull}
ValidatedCollections == {"skills", "education"}

\* results Qdrant may hand back: sound ones, ones with one defective field,
\* one without a type and one with every field defective
ScoredPoints ==
    {ScoredPoint(c, id, text, JStr(<<c>>), score) :
        c \in ValidatedCollections, id \in GoodIds, text \in GoodTexts, score \in GoodScores}
    \cup {ScoredPoint(c, id, JStr(<<"t">>), JStr(<<c>>), JNum(50)) :
             c \in ValidatedCollections, id \in BadIds}
    \cup {ScoredPoint(c, JNum(1), text, JStr(<<c>>), JNum(50)) :
             c \in ValidatedCollections, text \in BadTexts}
    \cup {ScoredPoint(c, JNum(1), JStr(<<"t">>), JStr(<<c>>), score) :
             c \in ValidatedCollections, score \in BadScores}
    \cup {ScoredPoint(c, JNum(1), JStr(<<"t">>), JAbsent, JNum(50)) : c \in ValidatedCollections}
    \cup {ScoredPoint(c, JStr(<<"x">>), JNull, JAbsent, JNaN) : c \in ValidatedCollections}

ScoredPointLists ==
    UNION {{hits \in [1..n -> ScoredPoints] :
               \A i \in 1..(n - 1) :
                   ConfigIndex(hits[i].collection) <= ConfigIndex(hits[i + 1].collection)}
           : n \in 0..MaxFound}

ValidateInit ==
    /\ IndexIdle
    /\ ExtractorIdle
    /\ AggregatorIdle
    /\ ProcIdle
    /\ found \in {[embedding_ok |-> TRUE, raised |-> {}, hits |-> hits] : hits \in ScoredPointLists}
    /\ search_result = NoResult

\* a call of enhanced_semantic_search whose searches returned found.hits
EnhancedSemanticSearch ==
    /\ ranked = NotRanked
    /\ all_results' = collect_valid_results(found.hits)
    /\ ranked' = [top_k |-> TopK,
                  results |-> aggregate_and_validate_results(all_results', TopK)]
    /\ UNCHANGED <<idxVars, exVars, srchVars, procVars>>

ValidateNext == EnhancedSemanticSearch

SpecValidate == ValidateInit /\ [][ValidateNext]_vars

\* the result lacks an integer resume_id, non-blank text or a score in [0,1]
Failing(result) ==
    \/ ~IntParses(result.payload.resume_id)
    \/ ~TextNotBlank(result.payload.text)
    \/ ~ScoreInRange(result.score)

\* the result as a hit over a stored payload
StoredHit(result) ==
    [collection |-> result.collection, score |-> result.score.v[1],
     payload |-> [resume_id |-> result.payload.resume_id.v[1], text |-> result.payload.text.v,
                  type |-> result.collection, name |-> result.payload.name]]

\* C25: every raw hit that contributes to the aggregation has a resume_id
\* that parses as an integer, non-blank text and a raw score in [0,1]; a hit
\* failing one of these is dropped without raising and without affecting the
\* other hits and collections.
C25_HitValidation ==
    /\ \A i \in DOMAIN all_results :
          /\ IntParses(all_results[i].resume_id)
          /\ TextNotBlank(all_results[i].text)
          /\ all_results[i].original_score >= 0 /\ all_results[i].original_score <= 100
    /\ ranked # NotRanked =>
          all_results = collect_valid_results(SelectSeq(found.hits, LAMBDA h : ~Failing(h)))
    /\ \A i \in DOMAIN found.hits :
          (/\ found.hits[i].payload.resume_id.t = "num"
           /\ found.hits[i].payload.text.t = "str"
           /\ found.hits[i].score.t = "num")
          => (validate_result(found.hits[i]) <=> validate_search_result(StoredHit(found.hits[i])))

C25_Witness ==
    /\ ranked # NotRanked
    /\ Len(found.hits) >= 2
    /\ Failing(found.hits[1])
    /\ ~Failing(found.hits[2])
    /\ found.hits[1].collection = found.hits[2].collection
    /\ Len(all_results) = 1
    /\ all_results[1].original_score = found.hits[2].score.v[1]

(***************************************************************************)
(* Claims on rehydrated candidates                                         *)
(***************************************************************************)
\* an experience entry has a field that is a non-empty string
PopulatedExperience(e) ==
    e.title # <<>> \/ e.company # <<>> \/ e.duration # <<>> \/ e.description # <<>>

\* an education entry has a field that is a non-empty string
PopulatedEducation(e) ==
    e.degree # <<>> \/ e.institution # <<>> \/ e.year # <<>> \/ e.grade # <<>>

CleanCandidate(c) ==
    /\ \A i \in DOMAIN c.skills : strip(c.skills[i]) # <<>>
    /\ \A i \in DOMAIN c.experience : PopulatedExperience(c.experience[i])
    /\ \A i \in DOMAIN c.education : PopulatedEducation(c.education[i])

\* C26: in every candidate built by get_verified_candidate_data the skills
\* hold no empty or whitespace-only string, and every experience and education
\* entry has at least one key whose value is a non-empty string.
C26_OutputCleaning ==
    /\ \A id \in DOMAIN resumes :
          resumes[id] # NoRow => CleanCandidate(get_verified_candidate_data(id, resumes[id]))
    /\ \A i \in DOMAIN search_result.candidates : CleanCandidate(search_result.candidates[i])

(***************************************************************************)
(* Claims on failed and concurrent index maintenance                       *)
(***************************************************************************)
\* every point of resume `id` in st is in st2 at least as often
PointsKept(st, st2, id) ==
    \A c \in ResumeCollections :
        \A p \in BagToSet(st[c]) :
            p.resume_id = id => CopiesIn(p, st2[c]) >= CopiesIn(p, st[c])

\* C27: if index_single_resume returns a failure for a resume that was
\* indexed before the call, the points the index held for that resume before
\* the call are still there afterwards.
C27_FailedReindexKeepsPoints ==
    [][(/\ last'.op = "index_single_resume"
        /\ ~last'.ok
        /\ last'.had)
       => PointsKept(store, store', last'.id)]_vars

\* delete_resume_from_index(id) is called by the after_delete listener while
\* thread t is idle
BeginRemove(t) ==
    /\ calls[t].pc = "idle"
    /\ calls' = [calls EXCEPT ![t] = [pc |-> "remove", k |-> 1, points |-> <<>>]]
    /\ UNCHANGED <<idxVars, exVars, aggVars, srchVars, bulk, conversation_history, http_response, run>>

\* one qdrant_client.delete of the loop of delete_resume_from_index; after the
\* last one the call returns True
RemoveStep(t, id) ==
    /\ calls[t].pc = "remove"
    /\ store' = [store EXCEPT ![collections_to_clean[calls[t].k]] =
                     qdrant_delete(@, "resume_id", id)]
    /\ calls' = [calls EXCEPT ![t] =
                    IF calls[t].k < Len(collections_to_clean)
                    THEN [@ EXCEPT !.k = @ + 1]
                    ELSE [pc |-> "removed", k |-> 0, points |-> <<>>]]
    /\ UNCHANGED <<resumes, jobs, last, exVars, aggVars, srchVars, bulk,
                   conversation_history, http_response, run>>

\* thread 1 runs index_single_resume(id); thread 2 runs
\* delete_resume_from_index(id), called while the index call is running; no
\* index call starts after the removal was called
RemoveNext ==
    \/ calls[2].pc = "idle" /\ BeginIndex(1)
    \/ \E id \in ResumeIds : DeleteStep(1, id)
    \/ UpsertStep(1)
    \/ calls[1].pc \in {"delete", "upsert"} /\ BeginRemove(2)
    \/ \E id \in ResumeIds : RemoveStep(2, id)

SpecRemove == ConcurrentInit /\ [][RemoveNext]_vars

\* C28: if delete_resume_from_index(id) returned success and no index call for
\* id started after it, then once all calls have completed no point with that
\* resume_id remains in any collection, for every interleaving with an
\* index_single_resume(id) call that was already running.
C28_RemoveWins ==
    (calls[1].pc = "done" /\ calls[2].pc = "removed") =>
        \A id \in ResumeIds : Total(Counts(store, "resume", id)) = 0

(***************************************************************************)
(* Search requests and the stored conversation                             *)
(* (src/services/talent_search_service.py 24-30, 157, 512-583)             *)
(***************************************************************************)
\* conversation_history[-5:] of extract_requirements
ContextCap == 5

\* "\n".join(f"{msg['role']}: {msg['content']}" for msg in ...)
RECURSIVE context_lines(_)
context_lines(messages) ==
    IF messages = <<>> THEN <<>>
    ELSE <<Head(messages).role, ": ">> \o Head(messages).content
         \o (IF Len(messages) > 1 THEN <<"\n">> \o context_lines(Tail(messages)) ELSE <<>>)

\* the context extract_requirements puts into the prompt (lines 27-30)
prompt_context(history) ==
    IF history = <<>> THEN <<>> ELSE context_lines(LastMessages(history, ContextCap))

\* a call that hands the route's message list to the extraction
history_passed_stored(history) == history

\* the conversation_history argument of self.extract_requirements(query) in
\* search_candidates (line 157): none is given, whatever the route holds
history_passed(history) == <<>>

\* the LLM answers the prompt it is sent: the model's reply may differ
\* between a prompt without context, one whose context is a single message
\* and one whose context has several
llm_reply(oracle, context) ==
    IF context = <<>> THEN oracle["none"]
    ELSE IF \E i \in DOMAIN context : context[i] = "\n" THEN oracle["earlier"]
    ELSE oracle["current"]

HistoryReplies ==
    {LlmRaises,
     LlmJson(JDict(SDev, JList(<<SPy>>), JList(<<>>), JList(<<>>), JNum(9), JList(<<>>), JAbsent)),
     LlmJson(JDict(not_specified, JList(<<>>), JList(<<>>), JList(<<>>), JNum(5), JList(<<>>), JAbsent))}

HistoryInit ==
    /\ resumes = [id \in SearchIds |-> IF id = 1 THEN RowAnn ELSE RowUnknown]
    /\ jobs = [id \in JobIds |-> NoRow]
    /\ store = IndexedStore
    /\ last = NoCall
    /\ query = QPyDev
    /\ llm \in [{"none", "current", "earlier"} -> HistoryReplies]
    /\ requirements = NotYet
    /\ AggregatorIdle
    /\ found \in RouteFound \cup {NoFound}
    /\ search_result = NoResult
    /\ ProcIdle

\* POST /search by an HR account with the query, for a conversation id: the
\* route appends the query to the conversation, calls search_candidates(query)
\* and answers with its candidates, requirements and response text
SearchInConversation(conversation_id) ==
    \E reply \in {llm_reply(llm, prompt_context(history_passed(
                      Append(conversation_history[conversation_id], UserMessage(query)))))} :
      \E bundle \in {search_candidates(resumes, query, reply, found)} :
        \E out \in {route_outcome(conversation_history, conversation_id, query, bundle)} :
            /\ conversation_history' = out.history
            /\ http_response' = out.response
            /\ search_result' = bundle
            /\ UNCHANGED <<idxVars, exVars, aggVars, found, bulk, calls, run>>

HistoryNext == \E conversation_id \in ConversationIds : SearchInConversation(conversation_id)

SpecHistory == HistoryInit /\ [][HistoryNext]_vars

\* C29: two calls of the search route with the same query, against the same
\* vector store and system of record, return the same candidates,
\* requirements and response text whatever messages are stored for the
\* conversation: a call returns what the call before it returned.
C29_HistoryIndependent ==
    [][(search_result.done /\ search_result'.done) =>
          /\ search_result'.candidates = search_result.candidates
          /\ search_result'.requirements = search_result.requirements
          /\ search_result'.response = search_result.response]_vars

C29_Witness ==
    /\ search_result.done
    /\ search_result.candidates # <<>>
    /\ \E c \in ConversationIds : Len(conversation_history[c]) >= 4
    /\ llm["none"] # llm["current"]
    /\ llm["none"] # llm["earlier"]

\* the score of a returned candidate before the cap
UncappedOf(candidate) == uncapped_score(resume_data(all_results, candidate.resume_id))

\* C30: for any two candidates in the result of
\* _aggregate_and_validate_results, the one whose uncapped score (average plus
\* diversity, skill and experience bonuses) is strictly greater is placed
\* first, also when both scores are capped at 2.0.
C30_RankingRespectsUncapped ==
    ranked # NotRanked =>
        \A i, j \in DOMAIN ranked.results :
            UncappedOf(ranked.results[i]) > UncappedOf(ranked.results[j]) => i < j

====
